---- MODULE Spec2Model ----
(***************************************************************************)
(* mailctl: thread reconstruction (src/src/thread_analyzer.py), the        *)
(* thread-aware analysis orchestrator (src/src/ai_analyzer.py) and the     *)
(* selection of the terminal interface (src/src/tui_app.py).               *)
(*                                                                         *)
(* A Python str is a sequence of one-character strings, so that lower(),   *)
(* substring tests, split() and the regular expressions are computed on    *)
(* the characters.  A dict is a function whose domain is its key set; a    *)
(* missing key is a key outside the domain (see Get).                      *)
(***************************************************************************)
EXTENDS Integers, Sequences, FiniteSets, TLC

VARIABLES
    email,          \* the message an operation is called on
    all_emails,     \* the list of fetched messages (emails / all_emails argument)
    thread_context, \* the prior thread handed to should_draft_reply
    client,         \* AIAnalyzer.client: TRUE iff an API client is configured
    thread_cache,   \* ThreadAnalyzer.thread_cache
    hash_seed,      \* the per-process seed of the built-in hash()
    op,             \* the step taken last
    ret,            \* the value the last operation returned
    loc,            \* the locals of analyze_email_with_context at its return
    self_emails,    \* MailctlTUI.emails
    current_email_index,    \* MailctlTUI.current_email_index
    tasks,          \* the asyncio tasks created and not yet run, oldest first
    list_view       \* the ListView "email-list": its items and its index

\* the state of the terminal interface
tui == <<self_emails, current_email_index, tasks, list_view>>

vars == <<email, all_emails, thread_context, client, thread_cache, hash_seed, op, ret, loc, tui>>

----------------------------------------------------------------------------
(* Bounds of the model *)

MaxHeaders == 3     \* headers per message (resolver inputs)
MaxSeed == 1        \* hash seeds 0..MaxSeed
MaxInbox == 3       \* fetched messages (grouper inputs)
MaxClock == 1       \* clock readings 0..MaxClock
MaxPrior == 5       \* messages of a prior thread (recommender inputs)
MaxFetched == 2     \* fetched messages (orchestrator inputs)
MaxThread == 3      \* messages of a thread (analyzer and summarizer inputs)
MaxBase == 1        \* messages of a thread before it grows
MaxFurther == 2     \* messages a thread grows by
MaxMail == 3        \* messages of the mailbox (terminal interface)
MaxTasks == 2       \* asyncio tasks created and not yet run

----------------------------------------------------------------------------
(* Python values *)

\* None where a dict is expected; a dict is a function on its keys
None == [py |-> "None"]
\* None where a str is expected; no str, whose elements are single
\* characters, equals it
NoneStr == <<"None">>
EmptyDict == <<>>

Get(d, k, default) == IF k \in DOMAIN d THEN d[k] ELSE default

Whitespace == {" ", "\t", "\n", "\r", "\f"}

UpperCase ==
    <<"A", "B", "C", "D", "E", "F", "G", "H", "I", "J", "K", "L", "M",
      "N", "O", "P", "Q", "R", "S", "T", "U", "V", "W", "X", "Y", "Z">>
LowerCase ==
    <<"a", "b", "c", "d", "e", "f", "g", "h", "i", "j", "k", "l", "m",
      "n", "o", "p", "q", "r", "s", "t", "u", "v", "w", "x", "y", "z">>

LowerTable ==
    [c \in {UpperCase[i] : i \in 1..Len(UpperCase)} |->
        LowerCase[CHOOSE i \in 1..Len(UpperCase) : UpperCase[i] = c]]

LowerChar(c) == IF c \in DOMAIN LowerTable THEN LowerTable[c] ELSE c

\* str.lower()
Lower(s) == [i \in 1..Len(s) |-> LowerChar(s[i])]

\* sub in s
Contains(s, sub) ==
    \E i \in 1..(Len(s) - Len(sub) + 1) : SubSeq(s, i, i + Len(sub) - 1) = sub

\* s.startswith(p)
StartsWith(s, p) == Len(s) >= Len(p) /\ SubSeq(s, 1, Len(p)) = p

\* s.count(c) for a one-character c
RECURSIVE Count(_, _)
Count(s, c) ==
    IF s = <<>> THEN 0
    ELSE (IF Head(s) = c THEN 1 ELSE 0) + Count(Tail(s), c)

\* the characters of s that are not in drop, in order
RECURSIVE Remove(_, _)
Remove(s, drop) ==
    IF s = <<>> THEN <<>>
    ELSE IF Head(s) \in drop THEN Remove(Tail(s), drop)
    ELSE <<Head(s)>> \o Remove(Tail(s), drop)

\* s with its leading whitespace removed
RECURSIVE LStrip(_)
LStrip(s) ==
    IF s # <<>> /\ Head(s) \in Whitespace THEN LStrip(Tail(s)) ELSE s

\* s with its trailing whitespace removed
RECURSIVE RStrip(_)
RStrip(s) ==
    IF s # <<>> /\ s[Len(s)] \in Whitespace
    THEN RStrip(SubSeq(s, 1, Len(s) - 1)) ELSE s

\* str.strip()
Strip(s) == RStrip(LStrip(s))

\* str.split(): the maximal runs of non-whitespace characters
RECURSIVE SplitFrom(_, _)
SplitFrom(s, word) ==
    IF s = <<>> THEN (IF word = <<>> THEN <<>> ELSE <<word>>)
    ELSE IF Head(s) \in Whitespace
         THEN (IF word = <<>> THEN <<>> ELSE <<word>>) \o SplitFrom(Tail(s), <<>>)
         ELSE SplitFrom(Tail(s), Append(word, Head(s)))

Split(s) == SplitFrom(s, <<>>)

\* re.sub(r'\s+', ' ', s): every run of whitespace becomes one space
RECURSIVE CollapseWhitespace(_)
CollapseWhitespace(s) ==
    IF s = <<>> THEN <<>>
    ELSE IF Head(s) \in Whitespace
         THEN <<" ">> \o CollapseWhitespace(LStrip(s))
         ELSE <<Head(s)>> \o CollapseWhitespace(Tail(s))

Digits == <<"0", "1", "2", "3", "4", "5", "6", "7", "8", "9">>

\* str(n) of a natural number
RECURSIVE NatToStr(_)
NatToStr(n) ==
    IF n < 10 THEN <<Digits[n + 1]>>
    ELSE NatToStr(n \div 10) \o <<Digits[(n % 10) + 1]>>

\* str(n) of an int, as an f-string formats it
IntToStr(n) == IF n < 0 THEN <<"-">> \o NatToStr(-n) ELSE NatToStr(n)

----------------------------------------------------------------------------
(* The built-in hash() of a str: a function of the characters and of a     *)
(* seed drawn once per process; hash('') is 0; the value is a signed word. *)

HashModulus == 2^16

Alphabet ==
    LowerCase \o UpperCase \o Digits \o
    <<" ", "\t", "\n", "\r", "\f", "<", ">", ":", "?", "-", "@", ".", "!">>

OrdTable ==
    [c \in {Alphabet[i] : i \in 1..Len(Alphabet)} |->
        CHOOSE i \in 1..Len(Alphabet) : Alphabet[i] = c]

Ord(c) == OrdTable[c]

RECURSIVE HashFrom(_, _)
HashFrom(h, s) ==
    IF s = <<>> THEN h
    ELSE HashFrom((31 * h + Ord(Head(s))) % HashModulus, Tail(s))

hash(s) ==
    IF s = <<>> THEN 0
    ELSE LET u == HashFrom(hash_seed, s)
         IN  IF u >= HashModulus \div 2 THEN u - HashModulus ELSE u

----------------------------------------------------------------------------
(* ThreadAnalyzer: the thread identity resolver *)

\* _normalize_message_id: re.sub(r'[<>\s]', '', message_id)
_normalize_message_id(message_id) == Remove(message_id, {"<", ">"} \cup Whitespace)

SubjectPrefixes ==
    << <<"r", "e">>, <<"f", "w", "d">>, <<"f", "w">> >>

\* re.sub(r'^(re|fwd|fw):\s*', '', s): one match at the start of s, the
\* alternatives tried in order, then the whitespace that follows
StripSubjectPrefix(s) ==
    LET matches == {i \in 1..Len(SubjectPrefixes) :
                        StartsWith(s, SubjectPrefixes[i] \o <<":">>)}
    IN  IF matches = {} THEN s
        ELSE LET i == CHOOSE m \in matches : \A n \in matches : m <= n
             IN  LStrip(SubSeq(s, Len(SubjectPrefixes[i]) + 2, Len(s)))

\* _normalize_subject
_normalize_subject(subject) ==
    Strip(CollapseWhitespace(StripSubjectPrefix(Lower(subject))))

MessageIdName == <<"m", "e", "s", "s", "a", "g", "e", "-", "i", "d">>
InReplyToName == <<"i", "n", "-", "r", "e", "p", "l", "y", "-", "t", "o">>
ReferencesName == <<"r", "e", "f", "e", "r", "e", "n", "c", "e", "s">>
DateName == <<"d", "a", "t", "e">>
SubjectKeyPrefix == <<"s", "u", "b", "j", "e", "c", "t", "-">>

\* mutant: the header names are compared as they are written
RECURSIVE ScanHeaders_CaseSensitive(_, _)
ScanHeaders_CaseSensitive(hs, acc) ==
    IF hs = <<>> THEN acc
    ELSE LET name == Get(Head(hs), "name", <<>>)
             value == Get(Head(hs), "value", <<>>)
             next ==
                 IF name = MessageIdName
                 THEN [acc EXCEPT !.message_id = _normalize_message_id(value)]
                 ELSE IF name = InReplyToName
                 THEN [acc EXCEPT !.in_reply_to = _normalize_message_id(value)]
                 ELSE IF name = ReferencesName
                 THEN [acc EXCEPT !.references = value]
                 ELSE acc
         IN  ScanHeaders_CaseSensitive(Tail(hs), next)

\* the loop over the headers of extract_thread_id: the three locals after
\* the headers hs, starting from acc
RECURSIVE ScanHeaders(_, _)
ScanHeaders(hs, acc) ==
    IF hs = <<>> THEN acc
    ELSE LET name == Lower(Get(Head(hs), "name", <<>>))
             value == Get(Head(hs), "value", <<>>)
             next ==
                 IF name = MessageIdName
                 THEN [acc EXCEPT !.message_id = _normalize_message_id(value)]
                 ELSE IF name = InReplyToName
                 THEN [acc EXCEPT !.in_reply_to = _normalize_message_id(value)]
                 ELSE IF name = ReferencesName
                 THEN [acc EXCEPT !.references = value]
                 ELSE acc
         IN  ScanHeaders(Tail(hs), next)

\* an Optional[str] used as a condition: None and '' are false
Truthy(v) == v # NoneStr /\ v # <<>>

\* mutant: References is consulted before In-Reply-To
ThreadKeyOf_ReferencesFirst(e, found) ==
    IF Truthy(found.references) /\ Split(found.references) # <<>>
    THEN _normalize_message_id(Split(found.references)[1])
    ELSE IF Truthy(found.in_reply_to) THEN found.in_reply_to
    ELSE IF Truthy(found.message_id) THEN found.message_id
    ELSE SubjectKeyPrefix \o
         IntToStr(hash(_normalize_subject(Get(e, "subject", <<>>))))

\* mutant: the fallback key is derived from the sender and the subject
ThreadKeyOf_SenderInFallback(e, found) ==
    IF Truthy(found.in_reply_to) THEN found.in_reply_to
    ELSE IF Truthy(found.references) /\ Split(found.references) # <<>>
    THEN _normalize_message_id(Split(found.references)[1])
    ELSE IF Truthy(found.message_id) THEN found.message_id
    ELSE SubjectKeyPrefix \o
         IntToStr(hash(Get(e, "sender", <<>>) \o _normalize_subject(Get(e, "subject", <<>>))))

\* mutant: the Message-ID is consulted before References
ThreadKeyOf_MessageIdFirst(e, found) ==
    IF Truthy(found.in_reply_to) THEN found.in_reply_to
    ELSE IF Truthy(found.message_id) THEN found.message_id
    ELSE IF Truthy(found.references) /\ Split(found.references) # <<>>
    THEN _normalize_message_id(Split(found.references)[1])
    ELSE SubjectKeyPrefix \o
         IntToStr(hash(_normalize_subject(Get(e, "subject", <<>>))))

\* the key extract_thread_id returns from the locals of its header loop
ThreadKeyOf(e, found) ==
    IF Truthy(found.in_reply_to) THEN found.in_reply_to
    ELSE IF Truthy(found.references) /\ Split(found.references) # <<>>
    THEN _normalize_message_id(Split(found.references)[1])
    ELSE IF Truthy(found.message_id) THEN found.message_id
    ELSE SubjectKeyPrefix \o
         IntToStr(hash(_normalize_subject(Get(e, "subject", <<>>))))

extract_thread_id(e) ==
    ThreadKeyOf(e, ScanHeaders(Get(e, "headers", <<>>),
                    [in_reply_to |-> NoneStr, references |-> NoneStr, message_id |-> NoneStr]))

----------------------------------------------------------------------------
(* ThreadAnalyzer: the thread grouper *)

\* _get_email_timestamp: whether or not a Date header is found, and whatever
\* its value, the result is the clock reading now taken at the call
_get_email_timestamp(e, now) ==
    IF \E i \in 1..Len(Get(e, "headers", <<>>)) :
            Lower(Get(Get(e, "headers", <<>>)[i], "name", <<>>)) = DateName
    THEN now
    ELSE now

\* mutant: a message that joins an existing thread replaces its bucket
RECURSIVE GroupFrom_Overwrite(_, _, _)
GroupFrom_Overwrite(emails, i, threads) ==
    IF i > Len(emails) THEN threads
    ELSE LET thread_id == extract_thread_id(emails[i])
             opened ==
                 IF thread_id \in DOMAIN threads.buckets THEN threads
                 ELSE [keys |-> Append(threads.keys, thread_id),
                       buckets |-> (thread_id :> <<>>) @@ threads.buckets]
         IN  GroupFrom_Overwrite(emails, i + 1,
                 [opened EXCEPT !.buckets[thread_id] = <<emails[i]>>])

\* the first loop of group_emails_by_thread from message i on: the dict
\* threads as its keys in insertion order and its buckets
RECURSIVE GroupFrom(_, _, _)
GroupFrom(emails, i, threads) ==
    IF i > Len(emails) THEN threads
    ELSE LET thread_id == extract_thread_id(emails[i])
             opened ==
                 IF thread_id \in DOMAIN threads.buckets THEN threads
                 ELSE [keys |-> Append(threads.keys, thread_id),
                       buckets |-> (thread_id :> <<>>) @@ threads.buckets]
         IN  GroupFrom(emails, i + 1,
                 [opened EXCEPT !.buckets[thread_id] = Append(@, emails[i])])

\* x put into the list sorted, which is in ascending key order, behind every
\* element whose key is not greater
RECURSIVE InsertByKey(_, _)
InsertByKey(x, sorted) ==
    IF sorted = <<>> THEN <<x>>
    ELSE IF Head(sorted).key <= x.key
         THEN <<Head(sorted)>> \o InsertByKey(x, Tail(sorted))
         ELSE <<x>> \o sorted

RECURSIVE StableSort(_)
StableSort(pairs) ==
    IF pairs = <<>> THEN <<>>
    ELSE InsertByKey(pairs[Len(pairs)], StableSort(SubSeq(pairs, 1, Len(pairs) - 1)))

\* list.sort(key=self._get_email_timestamp): one key per element, taken in
\* order from the clock readings nows, then a stable sort on the keys
SortByTimestamp(thread_emails, nows) ==
    LET pairs == [i \in 1..Len(thread_emails) |->
                     [key |-> _get_email_timestamp(thread_emails[i], nows[i]),
                      item |-> thread_emails[i]]]
        sorted == StableSort(pairs)
    IN  [i \in 1..Len(sorted) |-> sorted[i].item]

\* the second loop of group_emails_by_thread: the buckets sorted in the
\* insertion order of their keys, from key number j on; the clock has been
\* read used times before
RECURSIVE SortBucketsFrom(_, _, _, _)
SortBucketsFrom(threads, j, used, clock) ==
    IF j > Len(threads.keys) THEN threads.buckets
    ELSE LET thread_id == threads.keys[j]
             n == Len(threads.buckets[thread_id])
             sorted == SortByTimestamp(threads.buckets[thread_id],
                                       SubSeq(clock, used + 1, used + n))
         IN  SortBucketsFrom([threads EXCEPT !.buckets[thread_id] = sorted],
                             j + 1, used + n, clock)

\* group_emails_by_thread, the clock returning clock[n] at its n-th reading
group_emails_by_thread(emails, clock) ==
    SortBucketsFrom(GroupFrom(emails, 1, [keys |-> <<>>, buckets |-> EmptyDict]),
                    1, 0, clock)

\* the first loop of get_thread_context: the messages of emails in the
\* thread of e
ThreadOf(e, emails) ==
    LET thread_id == extract_thread_id(e)
    IN  SelectSeq(emails, LAMBDA other_email : extract_thread_id(other_email) = thread_id)

\* get_thread_context, the clock returning clock[n] at its n-th reading
get_thread_context(e, emails, clock) ==
    LET sorted == SortByTimestamp(ThreadOf(e, emails), clock)
    IN  SelectSeq(sorted, LAMBDA other : Get(other, "id", NoneStr) # Get(e, "id", NoneStr))

----------------------------------------------------------------------------
(* ThreadAnalyzer: the thread pattern analyzer *)

urgency_keywords ==
    << <<"u", "r", "g", "e", "n", "t">>,
       <<"a", "s", "a", "p">>,
       <<"i", "m", "m", "e", "d", "i", "a", "t", "e">>,
       <<"d", "e", "a", "d", "l", "i", "n", "e">>,
       <<"e", "m", "e", "r", "g", "e", "n", "c", "y">> >>

action_phrases ==
    << <<"p", "l", "e", "a", "s", "e">>,
       <<"c", "a", "n", " ", "y", "o", "u">>,
       <<"n", "e", "e", "d", " ", "t", "o">>,
       <<"s", "h", "o", "u", "l", "d", " ", "w", "e">> >>

reply_indicators ==
    << <<"?">>,
       <<"p", "l", "e", "a", "s", "e">>,
       <<"c", "a", "n", " ", "y", "o", "u">>,
       <<"w", "h", "a", "t", " ", "d", "o", " ", "y", "o", "u", " ", "t", "h", "i", "n", "k">> >>

scheduling_words ==
    << <<"m", "e", "e", "t", "i", "n", "g">>,
       <<"s", "c", "h", "e", "d", "u", "l", "e">>,
       <<"c", "a", "l", "e", "n", "d", "a", "r">> >>

\* any(w in text for w in words)
ContainsAny(text, words) == \E n \in 1..Len(words) : Contains(text, words[n])

\* mutant: urgency language of the first message counts as escalation too
AnalyzeMessage_FirstCounts(analysis, i, e, previous_sender) ==
    LET sender == Get(e, "sender", <<>>)
        body == Lower(Get(e, "body", <<>>))
        subject == Lower(Get(e, "subject", <<>>))
    IN  [thread_length |-> analysis.thread_length,
         participants |-> analysis.participants \cup {sender},
         response_pattern |->
             Append(analysis.response_pattern,
                    IF Truthy(previous_sender) /\ previous_sender # sender
                    THEN "response" ELSE "continuation"),
         urgency_escalation |->
             IF \E n \in 1..Len(urgency_keywords) :
                    Contains(body, urgency_keywords[n]) \/ Contains(subject, urgency_keywords[n])
             THEN TRUE
             ELSE analysis.urgency_escalation,
         question_count |-> analysis.question_count + Count(body, "?"),
         action_items |->
             IF ContainsAny(body, action_phrases)
             THEN Append(analysis.action_items, i + 1)
             ELSE analysis.action_items]

\* mutant: the action phrases are looked for in the subject too
AnalyzeMessage_ActionInSubject(analysis, i, e, previous_sender) ==
    LET sender == Get(e, "sender", <<>>)
        body == Lower(Get(e, "body", <<>>))
        subject == Lower(Get(e, "subject", <<>>))
    IN  [thread_length |-> analysis.thread_length,
         participants |-> analysis.participants \cup {sender},
         response_pattern |->
             Append(analysis.response_pattern,
                    IF Truthy(previous_sender) /\ previous_sender # sender
                    THEN "response" ELSE "continuation"),
         urgency_escalation |->
             IF /\ \E n \in 1..Len(urgency_keywords) :
                      Contains(body, urgency_keywords[n]) \/ Contains(subject, urgency_keywords[n])
                /\ i > 0
             THEN TRUE
             ELSE analysis.urgency_escalation,
         question_count |-> analysis.question_count + Count(body, "?"),
         action_items |->
             IF ContainsAny(body, action_phrases) \/ ContainsAny(subject, action_phrases)
             THEN Append(analysis.action_items, i + 1)
             ELSE analysis.action_items]

\* mutant: the urgency flag follows the message looked at last
AnalyzeMessage_LastDecides(analysis, i, e, previous_sender) ==
    LET sender == Get(e, "sender", <<>>)
        body == Lower(Get(e, "body", <<>>))
        subject == Lower(Get(e, "subject", <<>>))
    IN  [thread_length |-> analysis.thread_length,
         participants |-> analysis.participants \cup {sender},
         response_pattern |->
             Append(analysis.response_pattern,
                    IF Truthy(previous_sender) /\ previous_sender # sender
                    THEN "response" ELSE "continuation"),
         urgency_escalation |->
             /\ \E n \in 1..Len(urgency_keywords) :
                   Contains(body, urgency_keywords[n]) \/ Contains(subject, urgency_keywords[n])
             /\ i > 0,
         question_count |-> analysis.question_count + Count(body, "?"),
         action_items |->
             IF ContainsAny(body, action_phrases)
             THEN Append(analysis.action_items, i + 1)
             ELSE analysis.action_items]

\* one iteration of the loop of analyze_thread_patterns: message e at
\* index i (from 0).  An action item f"Email {i+1}: Action requested" is
\* kept as its number i+1.
AnalyzeMessage(analysis, i, e, previous_sender) ==
    LET sender == Get(e, "sender", <<>>)
        body == Lower(Get(e, "body", <<>>))
        subject == Lower(Get(e, "subject", <<>>))
    IN  [thread_length |-> analysis.thread_length,
         participants |-> analysis.participants \cup {sender},
         response_pattern |->
             Append(analysis.response_pattern,
                    IF Truthy(previous_sender) /\ previous_sender # sender
                    THEN "response" ELSE "continuation"),
         urgency_escalation |->
             IF /\ \E n \in 1..Len(urgency_keywords) :
                      Contains(body, urgency_keywords[n]) \/ Contains(subject, urgency_keywords[n])
                /\ i > 0
             THEN TRUE
             ELSE analysis.urgency_escalation,
         question_count |-> analysis.question_count + Count(body, "?"),
         action_items |->
             IF ContainsAny(body, action_phrases)
             THEN Append(analysis.action_items, i + 1)
             ELSE analysis.action_items]

\* the loop of analyze_thread_patterns from index i (from 0) on
RECURSIVE AnalyzeFrom(_, _, _, _)
AnalyzeFrom(thread_emails, i, analysis, previous_sender) ==
    IF i >= Len(thread_emails) THEN analysis
    ELSE AnalyzeFrom(thread_emails, i + 1,
                     AnalyzeMessage(analysis, i, thread_emails[i + 1], previous_sender),
                     Get(thread_emails[i + 1], "sender", <<>>))

\* analyze_thread_patterns; participants, a list in arbitrary order, is kept
\* as the set it is built from
analyze_thread_patterns(thread_emails) ==
    IF thread_emails = <<>> THEN EmptyDict
    ELSE AnalyzeFrom(thread_emails, 0,
                     [thread_length |-> Len(thread_emails),
                      participants |-> {},
                      response_pattern |-> <<>>,
                      urgency_escalation |-> FALSE,
                      question_count |-> 0,
                      action_items |-> <<>>],
                     NoneStr)

----------------------------------------------------------------------------
(* ThreadAnalyzer: the reply recommender.  A confidence is kept in tenths: *)
(* 0.5 is 5, 0.8 is 8, 1.0 is 10; the float sums 0.5 + 0.2 and 0.8 + 0.2   *)
(* are exactly 0.7 and 1.0.                                                *)

\* min(a, b)
Min(a, b) == IF a <= b THEN a ELSE b

\* rule 2 of should_draft_reply applied to the recommendations r
ReplyCueRule(r, body) ==
    IF ContainsAny(body, reply_indicators)
    THEN [r EXCEPT !.should_reply = TRUE, !.confidence = 8]
    ELSE r

\* mutant: rule 3 applies only when rule 2 has recommended a reply
UrgencyRule_OnlyWithReply(r, thread_analysis) ==
    IF Get(thread_analysis, "urgency_escalation", FALSE) /\ r.should_reply
    THEN [r EXCEPT !.reply_urgency = "high", !.confidence = Min(10, @ + 2)]
    ELSE r

\* rule 3 of should_draft_reply
UrgencyRule(r, thread_analysis) ==
    IF Get(thread_analysis, "urgency_escalation", FALSE)
    THEN [r EXCEPT !.reply_urgency = "high", !.confidence = Min(10, @ + 2)]
    ELSE r

\* mutant: the scheduling words are looked for before the thread length
ReplyTypeRule_KeywordFirst(r, body, thread_analysis) ==
    IF ContainsAny(body, scheduling_words)
    THEN [r EXCEPT !.reply_type = "scheduling"]
    ELSE IF Get(thread_analysis, "thread_length", 0) > 5
    THEN [r EXCEPT !.reply_type = "summary"]
    ELSE IF Get(thread_analysis, "question_count", 0) > 2
    THEN [r EXCEPT !.reply_type = "detailed_response"]
    ELSE r

\* the reply type selection of should_draft_reply
ReplyTypeRule(r, body, thread_analysis) ==
    IF Get(thread_analysis, "thread_length", 0) > 5
    THEN [r EXCEPT !.reply_type = "summary"]
    ELSE IF ContainsAny(body, scheduling_words)
    THEN [r EXCEPT !.reply_type = "scheduling"]
    ELSE IF Get(thread_analysis, "question_count", 0) > 2
    THEN [r EXCEPT !.reply_type = "detailed_response"]
    ELSE r

DefaultRecommendations ==
    [should_reply |-> FALSE, reply_urgency |-> "normal",
     reply_type |-> "standard", confidence |-> 5]

\* mutant: the urgency bump is applied before rule 2 assigns its confidence
should_draft_reply_BumpFirst(e, context) ==
    LET thread_analysis == analyze_thread_patterns(context \o <<e>>)
        body == Lower(Get(e, "body", <<>>))
    IN  ReplyTypeRule(
            ReplyCueRule(UrgencyRule(DefaultRecommendations, thread_analysis), body),
            body, thread_analysis)

\* mutant: an escalated thread recommends a reply by itself
should_draft_reply_UrgencyReplies(e, context) ==
    LET thread_analysis == analyze_thread_patterns(context \o <<e>>)
        body == Lower(Get(e, "body", <<>>))
        r == ReplyTypeRule(
                 UrgencyRule(ReplyCueRule(DefaultRecommendations, body), thread_analysis),
                 body, thread_analysis)
    IN  [r EXCEPT !.should_reply = @ \/ r.reply_urgency = "high"]

\* mutant: the recommender analyzes the prior thread without the message
should_draft_reply_ContextOnly(e, context) ==
    LET thread_analysis == analyze_thread_patterns(context)
        body == Lower(Get(e, "body", <<>>))
    IN  ReplyTypeRule(
            UrgencyRule(ReplyCueRule(DefaultRecommendations, body), thread_analysis),
            body, thread_analysis)

should_draft_reply(e, context) ==
    LET thread_analysis == analyze_thread_patterns(context \o <<e>>)
        body == Lower(Get(e, "body", <<>>))
    IN  ReplyTypeRule(
            UrgencyRule(ReplyCueRule(DefaultRecommendations, body), thread_analysis),
            body, thread_analysis)

----------------------------------------------------------------------------
(* ThreadAnalyzer: the conversation summarizer *)

\* the literals of get_conversation_summary
NO_HISTORY ==
    <<"N", "o", " ", "c", "o", "n", "v", "e", "r", "s", "a", "t", "i", "o", "n", " ", "h", "i", "s", "t", "o", "r", "y">>
FIRST_MESSAGE ==
    <<"F", "i", "r", "s", "t", " ", "m", "e", "s", "s", "a", "g", "e", " ", "i", "n", " ", "c", "o", "n", "v", "e", "r", "s", "a", "t", "i", "o", "n">>
UNKNOWN ==
    <<"U", "n", "k", "n", "o", "w", "n">>
CONVERSATION_WITH ==
    <<"C", "o", "n", "v", "e", "r", "s", "a", "t", "i", "o", "n", " ", "w", "i", "t", "h", " ">>
PARTICIPANTS_OPEN ==
    <<" ", "p", "a", "r", "t", "i", "c", "i", "p", "a", "n", "t", "s", " ", "(">>
COMMA ==
    <<",", " ">>
PLUS ==
    <<" ", "+">>
OTHERS ==
    <<" ", "o", "t", "h", "e", "r", "s">>
CLOSE ==
    <<")", ",", " ">>
MESSAGES ==
    <<" ", "m", "e", "s", "s", "a", "g", "e", "s">>
TOPIC ==
    <<".", " ", "T", "o", "p", "i", "c", ":", " ">>

\* sep.join(names)
RECURSIVE Join(_, _)
Join(names, sep) ==
    IF names = <<>> THEN <<>>
    ELSE IF Len(names) = 1 THEN names[1]
    ELSE names[1] \o sep \o Join(Tail(names), sep)

\* the orders in which a set can be listed
Orderings(S) ==
    {q \in [1..Cardinality(S) -> S] : \A x \in S : \E i \in 1..Cardinality(S) : q[i] = x}

\* set(email.get('sender', 'Unknown') for email in thread_emails)
SummaryParticipants(thread_emails) ==
    {Get(thread_emails[i], "sender", UNKNOWN) : i \in 1..Len(thread_emails)}

\* mutant: a thread of one message is summarized like a longer one
get_conversation_summary_NoSingleCase(thread_emails, listed) ==
    IF thread_emails = <<>> THEN NO_HISTORY
    ELSE LET participants == SummaryParticipants(thread_emails)
             subjects == [i \in 1..Len(thread_emails) |-> Get(thread_emails[i], "subject", <<>>)]
             key_topics ==
                 IF subjects # <<>> THEN <<_normalize_subject(subjects[Len(subjects)])>>
                 ELSE <<>>
         IN  CONVERSATION_WITH \o NatToStr(Cardinality(participants)) \o PARTICIPANTS_OPEN
             \o Join(SubSeq(listed, 1, Min(3, Len(listed))), COMMA)
             \o (IF Cardinality(participants) > 3
                 THEN PLUS \o NatToStr(Cardinality(participants) - 3) \o OTHERS
                 ELSE <<>>)
             \o CLOSE \o NatToStr(Len(thread_emails)) \o MESSAGES
             \o (IF key_topics # <<>>
                 THEN TOPIC \o SubSeq(key_topics[1], 1, Min(50, Len(key_topics[1])))
                 ELSE <<>>)

\* get_conversation_summary; listed is list(participants), the participants
\* in the order the set yields them
get_conversation_summary(thread_emails, listed) ==
    IF thread_emails = <<>> THEN NO_HISTORY
    ELSE IF Len(thread_emails) = 1 THEN FIRST_MESSAGE
    ELSE LET participants == SummaryParticipants(thread_emails)
             subjects == [i \in 1..Len(thread_emails) |-> Get(thread_emails[i], "subject", <<>>)]
             key_topics ==
                 IF subjects # <<>> THEN <<_normalize_subject(subjects[Len(subjects)])>>
                 ELSE <<>>
         IN  CONVERSATION_WITH \o NatToStr(Cardinality(participants)) \o PARTICIPANTS_OPEN
             \o Join(SubSeq(listed, 1, Min(3, Len(listed))), COMMA)
             \o (IF Cardinality(participants) > 3
                 THEN PLUS \o NatToStr(Cardinality(participants) - 3) \o OTHERS
                 ELSE <<>>)
             \o CLOSE \o NatToStr(Len(thread_emails)) \o MESSAGES
             \o (IF key_topics # <<>>
                 THEN TOPIC \o SubSeq(key_topics[1], 1, Min(50, Len(key_topics[1])))
                 ELSE <<>>)

----------------------------------------------------------------------------
(* AIAnalyzer.  The classifier's reply is a sequence of tokens: "{", "}",  *)
(* a "key": value pair, the literal null, whitespace, or other text.       *)

Tok(t) == [t |-> t]
Pair(k, v) == [t |-> "pair", k |-> k, v |-> v]

\* _fallback_analysis
_fallback_analysis ==
    [summary |-> "AI analysis unavailable",
     category |-> "Unknown",
     priority |-> "Medium",
     suggested_action |-> "NoAction",
     urgency_indicators |-> <<>>,
     requires_response |-> FALSE,
     estimated_response_time |-> None,
     task_description |-> None,
     thread_position |-> "Unknown"]

\* str.strip() on the tokens
RECURSIVE StripTokens(_)
StripTokens(text) ==
    IF text # <<>> /\ Head(text).t = " " THEN StripTokens(Tail(text))
    ELSE IF text # <<>> /\ text[Len(text)].t = " "
    THEN StripTokens(SubSeq(text, 1, Len(text) - 1))
    ELSE text

\* str.find(t): the index (from 0) of the first token t, or -1
Find(text, t) ==
    IF \E i \in 1..Len(text) : text[i].t = t
    THEN (CHOOSE i \in 1..Len(text) :
              text[i].t = t /\ \A j \in 1..(i - 1) : text[j].t # t) - 1
    ELSE -1

\* str.rfind(t): the index (from 0) of the last token t, or -1
RFind(text, t) ==
    IF \E i \in 1..Len(text) : text[i].t = t
    THEN (CHOOSE i \in 1..Len(text) :
              text[i].t = t /\ \A j \in (i + 1)..Len(text) : text[j].t # t) - 1
    ELSE -1

\* the dict of a sequence of pairs; the last pair of a key gives its value
RECURSIVE DictOf(_)
DictOf(pairs) ==
    IF pairs = <<>> THEN EmptyDict
    ELSE (pairs[Len(pairs)].k :> pairs[Len(pairs)].v)
         @@ DictOf(SubSeq(pairs, 1, Len(pairs) - 1))

\* the value json.loads gives for false
PyFalse == [py |-> "False"]

\* json.loads: an object of pairs is a dict, null is None, false is False,
\* anything else raises (ok is FALSE); whitespace between the tokens is
\* skipped
json_loads(text) ==
    LET toks == SelectSeq(text, LAMBDA x : x.t # " ")
    IN  IF /\ Len(toks) >= 2
           /\ toks[1].t = "{"
           /\ toks[Len(toks)].t = "}"
           /\ \A i \in 2..(Len(toks) - 1) : toks[i].t = "pair"
        THEN [ok |-> TRUE, value |-> DictOf(SubSeq(toks, 2, Len(toks) - 1))]
        ELSE IF Len(toks) = 1 /\ toks[1].t = "null"
        THEN [ok |-> TRUE, value |-> None]
        ELSE IF Len(toks) = 1 /\ toks[1].t = "false"
        THEN [ok |-> TRUE, value |-> PyFalse]
        ELSE [ok |-> FALSE]

\* mutant: a failure of the classifier call gives None
analyze_email_NoneOnFailure(outcome) ==
    IF ~client THEN None
    ELSE IF outcome.kind = "raises" THEN None
    ELSE LET response_text == StripTokens(outcome.text)
             json_start == Find(response_text, "{")
             json_end == RFind(response_text, "}") + 1
             parsed ==
                 IF json_start # -1 /\ json_end # 0
                 THEN json_loads(SubSeq(response_text, json_start + 1, json_end))
                 ELSE json_loads(response_text)
         IN  IF parsed.ok THEN parsed.value ELSE None

\* analyze_email; outcome is what the call of the API does: it raises, or
\* it returns the text outcome.text
analyze_email(outcome) ==
    IF ~client THEN _fallback_analysis
    ELSE IF outcome.kind = "raises" THEN _fallback_analysis
    ELSE LET response_text == StripTokens(outcome.text)
             json_start == Find(response_text, "{")
             json_end == RFind(response_text, "}") + 1
             parsed ==
                 IF json_start # -1 /\ json_end # 0
                 THEN json_loads(SubSeq(response_text, json_start + 1, json_end))
                 ELSE json_loads(response_text)
         IN  IF parsed.ok THEN parsed.value ELSE _fallback_analysis

\* mutant: only None is false
Falsy_OnlyNone(v) == v = None

\* `not basic_analysis`: None, False and the empty dict are false
Falsy(v) == v = None \/ v = PyFalse \/ DOMAIN v = {}

\* mutant: an escalated thread sets the priority to Medium
AdjustPriority_Medium(analysis, reply_recommendations, thread_analysis) ==
    IF Get(reply_recommendations, "reply_urgency", "normal") = "high"
    THEN ("priority" :> "Medium") @@ analysis
    ELSE IF Get(thread_analysis, "urgency_escalation", FALSE)
    THEN IF "priority" \in DOMAIN analysis /\ analysis.priority = "Low"
         THEN ("priority" :> "Medium") @@ analysis
         ELSE analysis
    ELSE analysis

\* the priority adjustment of analyze_email_with_context
AdjustPriority(analysis, reply_recommendations, thread_analysis) ==
    IF Get(reply_recommendations, "reply_urgency", "normal") = "high"
    THEN ("priority" :> "High") @@ analysis
    ELSE IF Get(thread_analysis, "urgency_escalation", FALSE)
    THEN IF "priority" \in DOMAIN analysis /\ analysis.priority = "Low"
         THEN ("priority" :> "Medium") @@ analysis
         ELSE analysis
    ELSE analysis

\* mutant: the pattern analysis sees the context without the message
Enhance_ContextOnly(basic_analysis, e, context, listed) ==
    LET thread_summary == get_conversation_summary(context \o <<e>>, listed)
        reply_recommendations == should_draft_reply(e, context)
        thread_analysis == analyze_thread_patterns(context)
        updated ==
            ("thread_context" :>
                [thread_length |-> Get(thread_analysis, "thread_length", 1),
                 participants |-> Get(thread_analysis, "participants", {}),
                 conversation_summary |-> thread_summary,
                 reply_recommended |-> Get(reply_recommendations, "should_reply", FALSE),
                 reply_urgency |-> Get(reply_recommendations, "reply_urgency", "normal"),
                 suggested_reply_type |-> Get(reply_recommendations, "reply_type", "standard")])
            @@ basic_analysis
    IN  AdjustPriority(updated, reply_recommendations, thread_analysis)

\* the body of `if thread_context:` in analyze_email_with_context
Enhance(basic_analysis, e, context, listed) ==
    LET thread_summary == get_conversation_summary(context \o <<e>>, listed)
        reply_recommendations == should_draft_reply(e, context)
        thread_analysis == analyze_thread_patterns(context \o <<e>>)
        updated ==
            ("thread_context" :>
                [thread_length |-> Get(thread_analysis, "thread_length", 1),
                 participants |-> Get(thread_analysis, "participants", {}),
                 conversation_summary |-> thread_summary,
                 reply_recommended |-> Get(reply_recommendations, "should_reply", FALSE),
                 reply_urgency |-> Get(reply_recommendations, "reply_urgency", "normal"),
                 suggested_reply_type |-> Get(reply_recommendations, "reply_type", "standard")])
            @@ basic_analysis
    IN  AdjustPriority(updated, reply_recommendations, thread_analysis)

----------------------------------------------------------------------------
(* Inputs of the resolver: messages as the providers build them            *)
(* (id, sender, subject, body, headers), with the headers the resolver     *)
(* tells apart                                                             *)

Header(name, value) == [name |-> name, value |-> value]

ResolverHeaders ==
    { Header(<<"I", "n", "-", "R", "e", "p", "l", "y", "-", "T", "o">>, <<"<", "a", ">">>),
      Header(<<"i", "n", "-", "r", "e", "p", "l", "y", "-", "t", "o">>, <<" ", "<", "b", ">", "\t">>),
      Header(<<"I", "n", "-", "R", "e", "p", "l", "y", "-", "T", "o">>, <<"<", ">">>),
      Header(<<"R", "e", "f", "e", "r", "e", "n", "c", "e", "s">>, <<"<", "c", ">", " ", "<", "a", ">">>),
      Header(<<"R", "E", "F", "E", "R", "E", "N", "C", "E", "S">>, <<" ">>),
      Header(<<"R", "e", "f", "e", "r", "e", "n", "c", "e", "s">>, <<"<", ">">>),
      Header(<<"M", "e", "s", "s", "a", "g", "e", "-", "I", "D">>, <<"<", "d", ">">>),
      Header(<<"M", "e", "s", "s", "a", "g", "e", "-", "I", "d">>, <<"<", ">">>),
      Header(<<"D", "a", "t", "e">>, <<"M", "o", "n">>) }

RECURSIVE SeqsUpTo(_, _)
SeqsUpTo(S, n) ==
    IF n = 0 THEN {<<>>}
    ELSE LET shorter == SeqsUpTo(S, n - 1)
         IN  shorter \cup {Append(q, x) : q \in shorter, x \in S}

ResolverSubjects ==
    { <<"R", "e", ":", " ", "H", "i">>, <<"h", "i">>, <<>> }

\* the fields the resolver does not read, as two messages fill them
OtherFields ==
    { [id |-> <<"m", "1">>, sender |-> <<"a", "l", "i", "c", "e">>, body |-> <<"o", "k">>],
      [id |-> <<"m", "2">>, sender |-> <<"b", "o", "b">>, body |-> <<"U", "R", "G", "E", "N", "T", "?">>] }

\* the first message handed to the resolver
ResolverEmails ==
    LET o == CHOOSE f \in OtherFields : f.id = <<"m", "1">>
    IN  { [id |-> o.id, sender |-> o.sender, subject |-> s, body |-> o.body, headers |-> hs] :
            s \in ResolverSubjects, hs \in SeqsUpTo(ResolverHeaders, MaxHeaders) }
        \cup
        \* a message without a headers key
        { [id |-> o.id, sender |-> o.sender, subject |-> s, body |-> o.body] :
            s \in ResolverSubjects }

\* the header names as another provider spells them: all in upper case or
\* all in lower case
UpperTable ==
    [c \in {LowerCase[i] : i \in 1..Len(LowerCase)} |->
        UpperCase[CHOOSE i \in 1..Len(LowerCase) : LowerCase[i] = c]]

Upper(s) == [i \in 1..Len(s) |-> IF s[i] \in DOMAIN UpperTable THEN UpperTable[s[i]] ELSE s[i]]

Recased(headers, how) ==
    [i \in 1..Len(headers) |->
        [headers[i] EXCEPT !.name = IF how = "upper" THEN Upper(@) ELSE Lower(@)]]

\* the subjects of messages that have no header to thread by
FallbackSubjects ==
    { <<"H", "i">>,
      <<"R", "e", ":", " ", "H", "i">>,
      <<"R", "E", ":", " ", " ", "h", "i", " ">>,
      <<"R", "e", ":", " ", "R", "e", ":", " ", "H", "i">>,
      <<"F", "w", "d", ":", " ", "R", "e", ":", " ", "H", "i">>,
      <<"F", "w", ":", "h", "i">>,
      <<>>,
      <<"R", "e", ":">>,
      <<"H", "i", " ", "a", "l", "l">> }

\* messages without a headers key and with an empty headers list
FallbackEmails(o) ==
    { [id |-> o.id, sender |-> o.sender, subject |-> s, body |-> o.body] :
         s \in FallbackSubjects }
    \cup
    { [id |-> o.id, sender |-> o.sender, subject |-> s, body |-> o.body, headers |-> <<>>] :
         s \in FallbackSubjects }

----------------------------------------------------------------------------
(* Inputs of the grouper and of the orchestrator: the fetched messages.    *)
(* MsgA, MsgB and MsgC are a root, a reply to it and a reply to the reply  *)
(* (the shape of SAMPLE_EMAILS); MsgD and MsgE have no threading header    *)
(* and share an id                                                         *)

\* the Date values of the root and of the reply
RootDate == <<"M", "o", "n", ",", " ", "1", "5", " ", "J", "a", "n", " ", "2", "0", "2", "4", " ", "1", "0", ":", "3", "0", ":", "0", "0", " ", "-", "0", "8", "0", "0">>
ReplyDate == <<"M", "o", "n", ",", " ", "1", "5", " ", "J", "a", "n", " ", "2", "0", "2", "4", " ", "1", "2", ":", "1", "5", ":", "0", "0", " ", "-", "0", "8", "0", "0">>

\* a thread root: Message-ID only
MsgA ==
    [id |-> <<"m", "1">>,
     sender |-> <<"a", "l", "i", "c", "e">>,
     subject |-> <<"B", "u", "d", "g", "e", "t">>,
     body |-> <<"U", "r", "g", "e", "n", "t", " ", "F", "r", "i", "d", "a", "y">>,
     headers |-> <<Header(<<"M", "e", "s", "s", "a", "g", "e", "-", "I", "D">>, <<"<", "a", ">">>),
                    Header(<<"D", "a", "t", "e">>, RootDate)>>]

\* a reply to MsgA
MsgB ==
    [id |-> <<"m", "2">>,
     sender |-> <<"b", "o", "b">>,
     subject |-> <<"R", "e", ":", " ", "B", "u", "d", "g", "e", "t">>,
     body |-> <<"W", "h", "a", "t", " ", "R", "O", "I", "?">>,
     headers |-> <<Header(<<"M", "e", "s", "s", "a", "g", "e", "-", "I", "D">>, <<"<", "b", ">">>),
                    Header(<<"I", "n", "-", "R", "e", "p", "l", "y", "-", "T", "o">>, <<"<", "a", ">">>),
                    Header(<<"R", "e", "f", "e", "r", "e", "n", "c", "e", "s">>, <<"<", "a", ">">>),
                    Header(<<"D", "A", "T", "E">>, ReplyDate)>>]

\* a reply to MsgB
MsgC ==
    [id |-> <<"m", "3">>,
     sender |-> <<"a", "l", "i", "c", "e">>,
     subject |-> <<"R", "E", ":", " ", "B", "u", "d", "g", "e", "t">>,
     body |-> <<"A", "S", "A", "P", " ", "p", "l", "e", "a", "s", "e">>,
     headers |-> <<Header(<<"i", "n", "-", "r", "e", "p", "l", "y", "-", "t", "o">>, <<"<", "b", ">">>),
                    Header(<<"R", "e", "f", "e", "r", "e", "n", "c", "e", "s">>, <<"<", "a", ">", " ", "<", "b", ">">>),
                    Header(<<"D", "a", "t", "e">>, <<"T", "u", "e">>)>>]

\* no headers key; the subject is the only evidence
MsgD ==
    [id |-> <<"m", "4">>,
     sender |-> <<"c", "a", "r", "o", "l">>,
     subject |-> <<"R", "e", ":", " ", "H", "i">>,
     body |-> <<"m", "e", "e", "t", "i", "n", "g", "?">>]

\* an empty headers list, MsgD's id and normalized subject
MsgE ==
    [id |-> <<"m", "4">>,
     sender |-> <<"b", "o", "b">>,
     subject |-> <<"h", "i">>,
     body |-> <<"U", "r", "g", "e", "n", "t">>,
     headers |-> <<>>]

InboxPool == {MsgA, MsgB, MsgC, MsgD, MsgE}

----------------------------------------------------------------------------
(* Inputs of the pattern analyzer and of the recommender: the messages of  *)
(* a prior thread and the candidate message                                *)

PriorPool ==
    { \* nothing the analyzers look for
      [sender |-> <<"a", "l", "i", "c", "e">>,
        subject |-> <<"H", "e", "l", "l", "o">>,
        body |-> <<"o", "k">>],
      \* urgency in the subject only, one question
      [sender |-> <<"b", "o", "b">>,
        subject |-> <<"D", "E", "A", "D", "L", "I", "N", "E">>,
        body |-> <<"w", "h", "y", "?">>],
      \* urgency, an action phrase and a question in the body
      [sender |-> <<"a", "l", "i", "c", "e">>,
        subject |-> <<"H", "e", "l", "l", "o">>,
        body |-> <<"A", "S", "A", "P", " ", "P", "l", "e", "a", "s", "e", "?">>] }

CandidatePool ==
    { [sender |-> <<"b", "o", "b">>,
        subject |-> <<"H", "e", "l", "l", "o">>,
        body |-> <<"o", "k">>],
      [sender |-> <<"a", "l", "i", "c", "e">>,
        subject |-> <<"H", "e", "l", "l", "o">>,
        body |-> <<"C", "a", "n", " ", "y", "o", "u", "?">>],
      [sender |-> <<"b", "o", "b">>,
        subject |-> <<"H", "e", "l", "l", "o">>,
        body |-> <<"P", "L", "E", "A", "S", "E">>],
      [sender |-> <<"a", "l", "i", "c", "e">>,
        subject |-> <<"H", "e", "l", "l", "o">>,
        body |-> <<"M", "e", "e", "t", "i", "n", "g", "?">>],
      [sender |-> <<"b", "o", "b">>,
        subject |-> <<"H", "e", "l", "l", "o">>,
        body |-> <<"U", "r", "g", "e", "n", "t">>],
      [sender |-> <<"a", "l", "i", "c", "e">>,
        subject |-> <<"E", "m", "e", "r", "g", "e", "n", "c", "y">>,
        body |-> <<"o", "k">>],
      [sender |-> <<"b", "o", "b">>,
        subject |-> <<"H", "e", "l", "l", "o">>,
        body |-> <<"?", "?", "?">>],
      [sender |-> <<"a", "l", "i", "c", "e">>,
        subject |-> <<"H", "e", "l", "l", "o">>,
        body |-> <<"r", "e", "s", "c", "h", "e", "d", "u", "l", "e", "d">>],
      [sender |-> <<"b", "o", "b">>,
        subject |-> <<"H", "e", "l", "l", "o">>,
        body |-> <<"W", "h", "a", "t", " ", "d", "o", " ", "y", "o", "u", " ", "t", "h", "i", "n", "k">>],
      [sender |-> <<"a", "l", "i", "c", "e">>,
        subject |-> <<"H", "e", "l", "l", "o">>] }

----------------------------------------------------------------------------
(* Inputs of the reply scenario: a thread root and a reply to it, as the   *)
(* first two messages of SAMPLE_EMAILS' budget thread                      *)

\* the root: a Message-ID and no reply header
ScenarioRoots ==
    { [id |-> <<"m", "1">>,
       sender |-> <<"a", "l", "i", "c", "e">>,
       subject |-> <<"B", "u", "d", "g", "e", "t">>,
       body |-> b,
       headers |-> <<Header(<<"M", "e", "s", "s", "a", "g", "e", "-", "I", "D">>, v)>>] :
         b \in { <<"L", "e", "t", " ", "m", "e", " ", "k", "n", "o", "w">>, <<"W", "h", "y", "?", " ", "H", "o", "w", "?", " ", "W", "h", "e", "n", "?">> },
         v \in { <<"<", "a", ">">>, <<"a">> } }

\* the reply: In-Reply-To names the root's Message-ID, with or without
\* angle brackets and whitespace
ScenarioReplies ==
    { [id |-> <<"m", "2">>,
       sender |-> <<"b", "o", "b">>,
       subject |-> <<"R", "e", ":", " ", "B", "u", "d", "g", "e", "t">>,
       body |-> b,
       headers |-> <<Header(<<"M", "e", "s", "s", "a", "g", "e", "-", "I", "D">>, <<"<", "b", ">">>),
                      Header(<<"I", "n", "-", "R", "e", "p", "l", "y", "-", "T", "o">>, w)>>] :
         b \in { <<"W", "h", "a", "t", " ", "R", "O", "I", "?">>, <<"P", "l", "e", "a", "s", "e", " ", "a", "d", "v", "i", "s", "e", "?">>, <<"M", "e", "e", "t", "i", "n", "g", " ", "w", "h", "e", "n", "?">> },
         w \in { <<"<", "a", ">">>, <<"a">>, <<" ", "<", "a", ">", "\t">> } }

----------------------------------------------------------------------------
(* Inputs of the pattern analyzer and of the summarizer: the messages of a *)
(* thread, with and without a sender, a subject and a body                 *)

ThreadPool ==
    { [sender |-> <<"a", "l", "i", "c", "e">>, subject |-> <<"H", "e", "l", "l", "o">>, body |-> <<"o", "k">>],
      \* urgency in the subject, an action phrase and a question in the body
      [sender |-> <<"b", "o", "b">>, subject |-> <<"R", "e", ":", " ", "U", "R", "G", "E", "N", "T">>, body |-> <<"C", "a", "n", " ", "y", "o", "u", "?">>],
      \* an empty sender and an empty subject, urgency in the body
      [sender |-> <<>>, subject |-> <<>>, body |-> <<"A", "S", "A", "P", " ", "p", "l", "e", "a", "s", "e">>],
      \* no sender and no subject
      [body |-> <<"P", "l", "e", "a", "s", "e">>],
      \* no body, an action phrase in the subject
      [sender |-> <<"a", "l", "i", "c", "e">>, subject |-> <<"F", "w", "d", ":", " ", " ", "C", "a", "n", " ", "y", "o", "u">>] }

----------------------------------------------------------------------------
(* What the call of the classifier API can do when a client is configured  *)

Prose == Tok("text")

ClassifierOutcomes ==
    { [kind |-> "raises"] } \cup
    { [kind |-> "returns", text |-> r] : r \in
        { \* an object wrapped in prose
          <<Prose, Tok("{"), Pair("priority", "Low"), Pair("category", "Important"), Tok("}"), Prose>>,
          <<Tok(" "), Tok("{"), Pair("priority", "Medium"), Tok("}"), Tok(" ")>>,
          <<Tok("{"), Pair("priority", "High"), Tok("}")>>,
          \* an object without a priority
          <<Tok("{"), Pair("category", "Newsletter"), Tok("}")>>,
          \* the empty object
          <<Tok("{"), Tok("}")>>,
          \* null, and false behind a blank
          <<Tok("null")>>,
          <<Tok(" "), Tok("false")>>,
          \* no JSON at all
          <<Prose>>,
          \* the first "{" behind the last "}"
          <<Tok("}"), Tok("{")>>,
          \* an object followed by prose and a stray "}"
          <<Tok("{"), Pair("priority", "Low"), Tok("}"), Prose, Tok("}")>>,
          \* a truncated object
          <<Tok("{"), Pair("priority", "Low")>> } }

\* without a client the API is not called
NotCalled == [kind |-> "not_called"]

----------------------------------------------------------------------------
(* The analyzers as constructed: ThreadAnalyzer.__init__ leaves the cache  *)
(* empty and nothing has been called                                       *)

Constructed ==
    /\ thread_cache = EmptyDict
    /\ op = "none"
    /\ ret = None
    /\ loc = None
    /\ self_emails = <<>>
    /\ current_email_index = 0
    /\ tasks = <<>>
    /\ list_view = [items |-> 0, index |-> None]

----------------------------------------------------------------------------
(* The resolver called on one message, and on a second message with the    *)
(* same headers and subject                                                *)

InitResolver ==
    /\ Constructed
    /\ hash_seed \in 0..MaxSeed
    /\ client = FALSE
    /\ email \in ResolverEmails
    /\ all_emails = <<>>
    /\ thread_context = <<>>

ExtractThreadId ==
    /\ op # "extract_thread_id"
    /\ op' = "extract_thread_id"
    /\ ret' = extract_thread_id(email)
    /\ UNCHANGED <<email, all_emails, thread_context, client, thread_cache, hash_seed, tui, loc>>

\* the caller passes another message that carries the same headers and
\* subject; loc keeps the first message
NextMessageSameHeaders ==
    /\ op = "extract_thread_id"
    /\ loc = None
    /\ \E o \in OtherFields :
          /\ o.id # email.id
          /\ email' = [email EXCEPT !.id = o.id, !.sender = o.sender, !.body = o.body]
    /\ op' = "next_message"
    /\ loc' = [original |-> email]
    /\ UNCHANGED <<all_emails, thread_context, client, thread_cache, hash_seed, tui, ret>>

\* the caller passes the same message with its header names in another
\* letter case; loc keeps the message as it was
NextMessageRecased ==
    /\ op = "extract_thread_id"
    /\ loc = None
    /\ "headers" \in DOMAIN email
    /\ \E how \in {"upper", "lower"} :
          /\ Recased(email.headers, how) # email.headers
          /\ email' = [email EXCEPT !.headers = Recased(@, how)]
    /\ op' = "recased_message"
    /\ loc' = [original |-> email]
    /\ UNCHANGED <<all_emails, thread_context, client, thread_cache, hash_seed, tui, ret>>

NextResolver == ExtractThreadId \/ NextMessageSameHeaders \/ NextMessageRecased

SpecResolver == InitResolver /\ [][NextResolver]_vars

----------------------------------------------------------------------------
(* The resolver called on two messages that have no header to thread by *)

InitFallback ==
    /\ Constructed
    /\ hash_seed \in 0..MaxSeed
    /\ client = FALSE
    /\ email \in FallbackEmails(CHOOSE f \in OtherFields : f.id = <<"m", "1">>)
    /\ all_emails = <<>>
    /\ thread_context = <<>>

\* the caller passes a second message; loc keeps the first message and its
\* key
NextMessageOtherSubject ==
    /\ op = "extract_thread_id"
    /\ loc = None
    /\ email' \in FallbackEmails(CHOOSE f \in OtherFields : f.id = <<"m", "2">>)
    /\ loc' = [original |-> email, key |-> ret]
    /\ op' = "next_message"
    /\ UNCHANGED <<all_emails, thread_context, client, thread_cache, hash_seed, tui, ret>>

NextFallback == ExtractThreadId \/ NextMessageOtherSubject

SpecFallback == InitFallback /\ [][NextFallback]_vars

----------------------------------------------------------------------------
(* The grouper called on the fetched messages *)

\* the readings of datetime.now() during one call that reads it n times: a
\* wall clock, which an adjustment can set back between two readings
ClockReadings(n) == [1..n -> 0..MaxClock]

InitGrouper ==
    /\ Constructed
    /\ hash_seed = 0
    /\ client = FALSE
    /\ all_emails \in SeqsUpTo(InboxPool, MaxInbox)
    /\ email = EmptyDict
    /\ thread_context = <<>>

GroupEmailsByThread ==
    /\ op = "none"
    /\ \E clock \in ClockReadings(Len(all_emails)) :
          /\ ret' = group_emails_by_thread(all_emails, clock)
          /\ loc' = [clock |-> clock]
    /\ op' = "group_emails_by_thread"
    /\ UNCHANGED <<email, all_emails, thread_context, client, thread_cache, hash_seed, tui>>

\* get_thread_context for one of the fetched messages
GetThreadContext ==
    /\ op = "none"
    /\ \E i \in 1..Len(all_emails) :
          \E clock \in ClockReadings(Len(ThreadOf(all_emails[i], all_emails))) :
              /\ email' = all_emails[i]
              /\ ret' = get_thread_context(all_emails[i], all_emails, clock)
    /\ op' = "get_thread_context"
    /\ UNCHANGED <<all_emails, thread_context, client, thread_cache, hash_seed, tui, loc>>

NextGrouper == GroupEmailsByThread \/ GetThreadContext

SpecGrouper == InitGrouper /\ [][NextGrouper]_vars

----------------------------------------------------------------------------
(* The grouper called on the fetched messages, then get_thread_context     *)
(* called for one of them                                                  *)

InitContext ==
    /\ Constructed
    /\ hash_seed = 0
    /\ client = FALSE
    /\ all_emails \in SeqsUpTo(InboxPool, MaxFetched)
    /\ email = EmptyDict
    /\ thread_context = <<>>

\* get_thread_context for one of the messages that have been grouped; loc
\* keeps the grouper's result and the clock readings of both calls
GetContextOfGrouped ==
    /\ op = "group_emails_by_thread"
    /\ \E i \in 1..Len(all_emails) :
          \E clock \in ClockReadings(Len(ThreadOf(all_emails[i], all_emails))) :
              /\ email' = all_emails[i]
              /\ ret' = get_thread_context(all_emails[i], all_emails, clock)
              /\ loc' = [threads |-> ret, grouping_clock |-> loc.clock, clock |-> clock]
    /\ op' = "get_thread_context"
    /\ UNCHANGED <<all_emails, thread_context, client, thread_cache, hash_seed, tui>>

NextContext == GroupEmailsByThread \/ GetContextOfGrouped

SpecContext == InitContext /\ [][NextContext]_vars

----------------------------------------------------------------------------
(* The pattern analyzer and the recommender called on a prior thread and a *)
(* candidate message                                                       *)

InitRecommender ==
    /\ Constructed
    /\ hash_seed = 0
    /\ client = FALSE
    /\ email \in CandidatePool
    /\ thread_context \in SeqsUpTo(PriorPool, MaxPrior)
    /\ all_emails = <<>>

\* analyze_thread_patterns on the prior thread alone or with the candidate
AnalyzeThreadPatterns ==
    /\ op = "none"
    /\ \E thread_emails \in {thread_context, thread_context \o <<email>>} :
          /\ ret' = analyze_thread_patterns(thread_emails)
          /\ loc' = [thread_emails |-> thread_emails]
    /\ op' = "analyze_thread_patterns"
    /\ UNCHANGED <<email, all_emails, thread_context, client, thread_cache, hash_seed, tui>>

ShouldDraftReply ==
    /\ op = "none"
    /\ ret' = should_draft_reply(email, thread_context)
    /\ op' = "should_draft_reply"
    /\ UNCHANGED <<email, all_emails, thread_context, client, thread_cache, hash_seed, tui, loc>>

NextRecommender == AnalyzeThreadPatterns \/ ShouldDraftReply

SpecRecommender == InitRecommender /\ [][NextRecommender]_vars

----------------------------------------------------------------------------
(* The orchestrator called on a message and the fetched messages *)

InitOrchestrator ==
    /\ Constructed
    /\ hash_seed = 0
    /\ client \in BOOLEAN
    /\ all_emails \in SeqsUpTo(InboxPool, MaxFetched)
    /\ email \in InboxPool
    /\ thread_context = <<>>

\* analyze_email_with_context(email, all_emails), or with all_emails left
\* out (None) when supplied is FALSE
AnalyzeEmailWithContext ==
    /\ op = "none"
    /\ op' = "analyze_email_with_context"
    /\ \E supplied \in BOOLEAN, outcome \in (IF client THEN ClassifierOutcomes ELSE {NotCalled}) :
          LET basic_analysis == analyze_email(outcome)
              called == [supplied |-> supplied, outcome |-> outcome,
                         basic_analysis |-> basic_analysis]
              plain == called @@ [thread_context |-> <<>>,
                                  reply_recommendations |-> None,
                                  thread_analysis |-> None]
          IN  IF Falsy(basic_analysis)
              THEN ret' = None /\ loc' = plain
              ELSE IF ~supplied \/ all_emails = <<>>
              THEN ret' = basic_analysis /\ loc' = plain
              ELSE \E clock \in ClockReadings(Len(ThreadOf(email, all_emails))) :
                      LET context == get_thread_context(email, all_emails, clock)
                      IN  IF context = <<>>
                          THEN ret' = basic_analysis /\ loc' = plain
                          ELSE \E listed \in Orderings(SummaryParticipants(context \o <<email>>)) :
                                  /\ ret' = Enhance(basic_analysis, email, context, listed)
                                  /\ loc' = called @@
                                         [thread_context |-> context,
                                          reply_recommendations |-> should_draft_reply(email, context),
                                          thread_analysis |-> analyze_thread_patterns(context \o <<email>>)]
    /\ UNCHANGED <<email, all_emails, thread_context, client, thread_cache, hash_seed, tui>>

NextOrchestrator == AnalyzeEmailWithContext

SpecOrchestrator == InitOrchestrator /\ [][NextOrchestrator]_vars

----------------------------------------------------------------------------
(* The reply scenario: the grouper called on a root and a reply to it, and *)
(* the recommender called on the reply with the root as its prior thread   *)

InitScenario ==
    /\ Constructed
    /\ hash_seed = 0
    /\ client = FALSE
    /\ \E A \in ScenarioRoots, B \in ScenarioReplies :
          /\ all_emails = <<A, B>>
          /\ email = B
          /\ thread_context = <<A>>

NextScenario == GroupEmailsByThread \/ ShouldDraftReply

SpecScenario == InitScenario /\ [][NextScenario]_vars

----------------------------------------------------------------------------
(* The pattern analyzer and the summarizer called on a thread *)

InitAnalyzer ==
    /\ Constructed
    /\ hash_seed = 0
    /\ client = FALSE
    /\ email \in ThreadPool
    /\ thread_context \in SeqsUpTo(ThreadPool, MaxThread)
    /\ all_emails = <<>>

\* get_conversation_summary on the prior thread alone or with the message
GetConversationSummary ==
    /\ op = "none"
    /\ \E thread_emails \in {thread_context, thread_context \o <<email>>} :
          \E listed \in Orderings(SummaryParticipants(thread_emails)) :
              /\ ret' = get_conversation_summary(thread_emails, listed)
              /\ loc' = [thread_emails |-> thread_emails]
    /\ op' = "get_conversation_summary"
    /\ UNCHANGED <<email, all_emails, thread_context, client, thread_cache, hash_seed, tui>>

NextAnalyzer == AnalyzeThreadPatterns \/ GetConversationSummary

SpecAnalyzer == InitAnalyzer /\ [][NextAnalyzer]_vars

----------------------------------------------------------------------------
(* The pattern analyzer called on a thread and again after the thread has  *)
(* grown                                                                   *)

InitGrowing ==
    /\ Constructed
    /\ hash_seed = 0
    /\ client = FALSE
    /\ email \in ThreadPool
    /\ thread_context \in SeqsUpTo(ThreadPool, MaxBase)
    /\ all_emails = <<>>

\* analyze_thread_patterns on the thread analyzed before with the further
\* messages behind it; loc keeps the thread, the messages and the earlier
\* result
AnalyzeGrownThread ==
    /\ op = "analyze_thread_patterns"
    /\ \E further \in SeqsUpTo(ThreadPool, MaxFurther) \ {<<>>} :
          /\ ret' = analyze_thread_patterns(loc.thread_emails \o further)
          /\ loc' = [thread_emails |-> loc.thread_emails, further |-> further, before |-> ret]
    /\ op' = "analyze_grown_thread"
    /\ UNCHANGED <<email, all_emails, thread_context, client, thread_cache, hash_seed, tui>>

NextGrowing == AnalyzeThreadPatterns \/ AnalyzeGrownThread

SpecGrowing == InitGrowing /\ [][NextGrowing]_vars

----------------------------------------------------------------------------
(* MailctlTUI: the fetched emails, the selected index and the asyncio      *)
(* tasks the handlers create.  A task runs to its end once the event loop  *)
(* starts it (none of the coroutines suspends), and the loop starts the    *)
(* tasks in the order of their creation.                                   *)

\* the tasks the handlers create
POPULATE == [name |-> "populate_email_list"]
LOAD == [name |-> "authenticate_and_load"]
Preview(index) == [name |-> "show_email_preview", index |-> index]

\* what analyze_email_with_context leaves in email['analysis']: a record, or
\* None
AnalysisOutcomes == {_fallback_analysis, None}

\* the lists fetch_unread_emails can return, after analyze_emails: messages
\* of the mailbox with the ids from..MaxMail, in the mailbox's order
RECURSIVE Fetched(_)
Fetched(from) ==
    IF from > MaxMail THEN {<<>>}
    ELSE LET rest == Fetched(from + 1)
         IN  rest \cup {<<[id |-> from, analysis |-> a]>> \o r : a \in AnalysisOutcomes, r \in rest}

\* what authenticate_and_load meets: get_provider, authenticate or the
\* fetch fails, or the fetch returns a list
LoadOutcomes ==
    {[kind |-> "fails"]} \cup {[kind |-> "fetched", emails |-> es] : es \in Fetched(1)}

\* list without the element at the 0-based index i
Pop(list, i) == SubSeq(list, 1, i) \o SubSeq(list, i + 2, Len(list))

\* show_email_preview(index): current_email_index after the call.  With an
\* analysis of None, analysis.get raises AttributeError ahead of the
\* assignment to current_email_index
show_email_preview(es, current, index) ==
    IF 0 <= index /\ index < Len(es)
    THEN IF es[index + 1].analysis = None THEN current ELSE index
    ELSE current

\* the ListView after populate_email_list has cleared and refilled it
Populated(es) == [items |-> Len(es), index |-> IF es # <<>> THEN 0 ELSE None]

\* ListView.index = i: the list view keeps the index inside its items
WithIndex(view, i) ==
    [view EXCEPT !.index =
        IF view.items = 0 THEN None
        ELSE IF i < 0 THEN 0
        ELSE IF i > view.items - 1 THEN view.items - 1
        ELSE i]

\* mutant: the first email is removed
remove_current_email_First(es, current) ==
    IF es # <<>> /\ 0 <= current /\ current < Len(es)
    THEN LET popped == Pop(es, 0)
             index == IF current >= Len(popped) /\ popped # <<>>
                      THEN Len(popped) - 1 ELSE current
         IN  [emails |-> popped,
              current_email_index |-> index,
              created |-> <<POPULATE>> \o (IF popped # <<>> THEN <<Preview(index)>> ELSE <<>>)]
    ELSE [emails |-> es, current_email_index |-> current, created |-> <<>>]

\* remove_current_email: the emails and the index it leaves, and the tasks
\* it creates
remove_current_email(es, current) ==
    IF es # <<>> /\ 0 <= current /\ current < Len(es)
    THEN LET popped == Pop(es, current)
             index == IF current >= Len(popped) /\ popped # <<>>
                      THEN Len(popped) - 1 ELSE current
         IN  [emails |-> popped,
              current_email_index |-> index,
              created |-> <<POPULATE>> \o (IF popped # <<>> THEN <<Preview(index)>> ELSE <<>>)]
    ELSE [emails |-> es, current_email_index |-> current, created |-> <<>>]

----------------------------------------------------------------------------
(* The terminal interface: on_mount, then the user's keys, buttons and     *)
(* list selections, and the event loop running the tasks created           *)

\* the part of the state that the terminal interface leaves alone
core == <<email, all_emails, thread_context, client, thread_cache, hash_seed, loc>>

InitTui ==
    /\ Constructed
    /\ hash_seed = 0
    /\ client = FALSE
    /\ all_emails = <<>>
    /\ email = EmptyDict
    /\ thread_context = <<>>

\* the application is mounted and no handler has raised
Running == op \notin {"none", "crashed"}

\* the body of remove_current_email
RemoveCurrentEmail ==
    LET r == remove_current_email(self_emails, current_email_index)
    IN  /\ self_emails' = r.emails
        /\ current_email_index' = r.current_email_index
        /\ tasks' = tasks \o r.created
        /\ UNCHANGED list_view

\* the body of action_delete; ret is the provider's answer
ActionDelete ==
    IF self_emails = <<>>
    THEN op' = "action_delete" /\ ret' = None /\ UNCHANGED tui
    ELSE IF current_email_index >= Len(self_emails)
    THEN \* self.emails[self.current_email_index] raises IndexError
         op' = "crashed" /\ ret' = None /\ UNCHANGED tui
    ELSE \E deleted \in BOOLEAN :
            /\ op' = "action_delete"
            /\ ret' = [delete_email |-> deleted]
            /\ IF deleted THEN RemoveCurrentEmail ELSE UNCHANGED tui

\* the body of action_archive
ActionArchive ==
    /\ op' = "action_archive"
    /\ ret' = None
    /\ RemoveCurrentEmail

\* the body of action_skip
ActionSkip ==
    /\ op' = "action_skip"
    /\ ret' = None
    /\ tasks' = IF current_email_index < Len(self_emails) - 1
                THEN Append(tasks, Preview(current_email_index + 1))
                ELSE tasks
    /\ UNCHANGED <<self_emails, current_email_index, list_view>>

\* the body of authenticate_and_load, populate_email_list included
AuthenticateAndLoad ==
    \E outcome \in LoadOutcomes :
        IF outcome.kind = "fails"
        THEN UNCHANGED <<self_emails, current_email_index, list_view>>
        ELSE /\ self_emails' = outcome.emails
             /\ IF outcome.emails = <<>>
                THEN UNCHANGED <<current_email_index, list_view>>
                ELSE /\ list_view' = Populated(outcome.emails)
                     /\ current_email_index' =
                            show_email_preview(outcome.emails, current_email_index, 0)

\* on_mount
OnMount ==
    /\ op = "none"
    /\ op' = "on_mount"
    /\ ret' = None
    /\ AuthenticateAndLoad
    /\ UNCHANGED <<tasks, core>>

\* on_button_pressed for the buttons Delete, Archive and Skip
OnButtonPressed ==
    /\ Running
    /\ Len(tasks) + 2 <= MaxTasks
    /\ \E button \in {"delete", "archive", "skip"} :
          IF self_emails = <<>> \/ current_email_index >= Len(self_emails)
          THEN op' = "on_button_pressed" /\ ret' = None /\ UNCHANGED tui
          ELSE CASE button = "delete" -> ActionDelete
                 [] button = "archive" -> ActionArchive
                 [] button = "skip" -> ActionSkip
    /\ UNCHANGED core

\* the key d: action_delete_email
ActionDeleteEmail ==
    /\ Running
    /\ Len(tasks) + 2 <= MaxTasks
    /\ ActionDelete
    /\ UNCHANGED core

\* the key r: action_refresh
ActionRefresh ==
    /\ Running
    /\ Len(tasks) + 1 <= MaxTasks
    /\ op' = "action_refresh"
    /\ ret' = None
    /\ tasks' = Append(tasks, LOAD)
    /\ UNCHANGED <<self_emails, current_email_index, list_view, core>>

\* the key j: action_next_email
ActionNextEmail ==
    /\ Running
    /\ op' = "action_next_email"
    /\ ret' = None
    /\ list_view' = IF current_email_index < Len(self_emails) - 1
                    THEN WithIndex(list_view, current_email_index + 1)
                    ELSE list_view
    /\ UNCHANGED <<self_emails, current_email_index, tasks, core>>

\* the key k: action_prev_email
ActionPrevEmail ==
    /\ Running
    /\ op' = "action_prev_email"
    /\ ret' = None
    /\ list_view' = IF current_email_index > 0
                    THEN WithIndex(list_view, current_email_index - 1)
                    ELSE list_view
    /\ UNCHANGED <<self_emails, current_email_index, tasks, core>>

\* the user selects an item of the list view: on_list_view_selected
OnListViewSelected ==
    /\ Running
    /\ Len(tasks) + 1 <= MaxTasks
    /\ op' = "on_list_view_selected"
    /\ ret' = None
    /\ \E index \in 0..(list_view.items - 1) :
          /\ list_view' = WithIndex(list_view, index)
          /\ tasks' = Append(tasks, Preview(index))
    /\ UNCHANGED <<self_emails, current_email_index, core>>

\* the event loop runs a populate_email_list task
RunPopulateEmailList ==
    /\ Running
    /\ tasks # <<>>
    /\ Head(tasks) = POPULATE
    /\ op' = "populate_email_list"
    /\ ret' = None
    /\ tasks' = Tail(tasks)
    /\ list_view' = Populated(self_emails)
    /\ current_email_index' =
          IF self_emails # <<>>
          THEN show_email_preview(self_emails, current_email_index, 0)
          ELSE current_email_index
    /\ UNCHANGED <<self_emails, core>>

\* the event loop runs a show_email_preview task
RunShowEmailPreview ==
    /\ Running
    /\ tasks # <<>>
    /\ Head(tasks).name = "show_email_preview"
    /\ op' = "show_email_preview"
    /\ ret' = None
    /\ tasks' = Tail(tasks)
    /\ current_email_index' =
          show_email_preview(self_emails, current_email_index, Head(tasks).index)
    /\ UNCHANGED <<self_emails, list_view, core>>

\* the event loop runs an authenticate_and_load task
RunAuthenticateAndLoad ==
    /\ Running
    /\ tasks # <<>>
    /\ Head(tasks) = LOAD
    /\ op' = "authenticate_and_load"
    /\ ret' = None
    /\ tasks' = Tail(tasks)
    /\ AuthenticateAndLoad
    /\ UNCHANGED core

NextTui ==
    \/ OnMount
    \/ OnButtonPressed
    \/ ActionDeleteEmail
    \/ ActionRefresh
    \/ ActionNextEmail
    \/ ActionPrevEmail
    \/ OnListViewSelected
    \/ RunPopulateEmailList
    \/ RunShowEmailPreview
    \/ RunAuthenticateAndLoad

SpecTui == InitTui /\ [][NextTui]_vars

----------------------------------------------------------------------------
(* Properties of the resolver *)

\* the headers of e whose lower-cased name is lname, in order
HeadersNamed(e, lname) ==
    SelectSeq(Get(e, "headers", <<>>), LAMBDA h : Lower(Get(h, "name", <<>>)) = lname)

HasHeader(e, lname) == HeadersNamed(e, lname) # <<>>

\* the value of the last header of e named lname
LastValue(e, lname) ==
    LET hs == HeadersNamed(e, lname) IN Get(hs[Len(hs)], "value", <<>>)

\* the value without the characters <, > and whitespace
WithoutBrackets(v) == SelectSeq(v, LAMBDA c : c \notin {"<", ">", " ", "\t", "\n", "\r", "\f"})

\* C1 as stated: every message that carries both an In-Reply-To and a
\* References header resolves to the normalized In-Reply-To value.
C1_AsStated ==
    (op = "extract_thread_id" /\ HasHeader(email, InReplyToName) /\ HasHeader(email, ReferencesName))
        => ret = WithoutBrackets(LastValue(email, InReplyToName))

\* C1 (amended): a message that carries both an In-Reply-To and a References
\* header, in any order and with or without a Message-ID, resolves to the
\* normalized value of its last In-Reply-To header whenever that normalized
\* value is not empty.
C1_ResolverPriority ==
    (/\ op = "extract_thread_id"
     /\ HasHeader(email, InReplyToName)
     /\ HasHeader(email, ReferencesName)
     /\ WithoutBrackets(LastValue(email, InReplyToName)) # <<>>)
        => ret = WithoutBrackets(LastValue(email, InReplyToName))

\* a message with References first, then In-Reply-To, and a Message-ID, whose
\* References would give another key, resolved to its In-Reply-To value
C1_Witness ==
    /\ op = "extract_thread_id"
    /\ HasHeader(email, MessageIdName)
    /\ Len(email.headers) = 3
    /\ Lower(email.headers[1].name) = ReferencesName
    /\ Lower(email.headers[3].name) = InReplyToName
    /\ WithoutBrackets(Split(email.headers[1].value)[1]) = <<"c">>
    /\ ret = <<"b">>

\* C3: a call of extract_thread_id changes neither the message nor the
\* thread cache (which stays empty), and a call that follows an earlier one,
\* on the same message or on a message with the same headers and subject but
\* another id, sender and body, returns the key the earlier call returned.
C3_ResolverDeterminism ==
    [][op' = "extract_thread_id" =>
          /\ email' = email
          /\ thread_cache' = EmptyDict
          /\ op # "none" => ret' = ret]_vars

\* the second message, which has no usable threading header, resolved
\* through its subject
C3_Witness ==
    /\ op = "extract_thread_id"
    /\ email.id = <<"m", "2">>
    /\ ~HasHeader(email, InReplyToName)
    /\ ~HasHeader(email, MessageIdName)
    /\ ~HasHeader(email, ReferencesName)
    /\ email.subject # <<>>
    /\ SubSeq(ret, 1, 8) = SubjectKeyPrefix

----------------------------------------------------------------------------
(* Properties of the grouper *)

\* how many elements of list equal m
Occurrences(m, list) == Cardinality({i \in 1..Len(list) : list[i] = m})

RECURSIVE SumOver(_, _)
SumOver(S, f) ==
    IF S = {} THEN 0
    ELSE LET x == CHOOSE y \in S : TRUE IN f[x] + SumOver(S \ {x}, f)

\* C2: the buckets group_emails_by_thread returns are not empty, every
\* message of the bucket for key k resolves to k, no message is in two
\* buckets, and every message is in the buckets as many times as in the
\* input.
C2_GroupingPartitions ==
    op = "group_emails_by_thread" =>
        /\ \A k \in DOMAIN ret :
              /\ ret[k] # <<>>
              /\ \A i \in 1..Len(ret[k]) : extract_thread_id(ret[k][i]) = k
        /\ \A k1, k2 \in DOMAIN ret :
              k1 # k2 => \A i \in 1..Len(ret[k1]) : Occurrences(ret[k1][i], ret[k2]) = 0
        /\ \A m \in InboxPool :
              SumOver(DOMAIN ret, [k \in DOMAIN ret |-> Occurrences(m, ret[k])])
                  = Occurrences(m, all_emails)

\* two threads, one of them holding a message that was fetched twice
C2_Witness ==
    /\ op = "group_emails_by_thread"
    /\ Cardinality(DOMAIN ret) = 2
    /\ \E k \in DOMAIN ret : Len(ret[k]) = 2 /\ ret[k][1] = ret[k][2]

----------------------------------------------------------------------------
(* Properties of the pattern analyzer and of the recommender *)

\* the text of a field of message m, in lower case
FieldText(m, field) == Lower(IF field \in DOMAIN m THEN m[field] ELSE <<>>)

\* message m has one of the urgency keywords in its body or subject
HasUrgencyWord(m) ==
    \E w \in { <<"u", "r", "g", "e", "n", "t">>, <<"a", "s", "a", "p">>,
               <<"i", "m", "m", "e", "d", "i", "a", "t", "e">>,
               <<"d", "e", "a", "d", "l", "i", "n", "e">>,
               <<"e", "m", "e", "r", "g", "e", "n", "c", "y">> } :
        Contains(FieldText(m, "body"), w) \/ Contains(FieldText(m, "subject"), w)

\* some message of the thread other than the first has an urgency keyword
Escalates(thread) == \E i \in 2..Len(thread) : HasUrgencyWord(thread[i])

\* the body of message m has one of the reply cues of rule 2
HasReplyCue(m) ==
    \E w \in { <<"?">>, <<"p", "l", "e", "a", "s", "e">>, <<"c", "a", "n", " ", "y", "o", "u">>,
               <<"w", "h", "a", "t", " ", "d", "o", " ", "y", "o", "u", " ", "t", "h", "i", "n", "k">> } :
        Contains(FieldText(m, "body"), w)

\* the body of message m has one of the scheduling words
HasSchedulingWord(m) ==
    \E w \in { <<"m", "e", "e", "t", "i", "n", "g">>, <<"s", "c", "h", "e", "d", "u", "l", "e">>,
               <<"c", "a", "l", "e", "n", "d", "a", "r">> } :
        Contains(FieldText(m, "body"), w)

\* the number of question marks in the bodies of the thread
RECURSIVE QuestionMarks(_)
QuestionMarks(thread) ==
    IF thread = <<>> THEN 0
    ELSE Cardinality({i \in 1..Len(FieldText(Head(thread), "body")) :
                          FieldText(Head(thread), "body")[i] = "?"})
         + QuestionMarks(Tail(thread))

\* C4: for every non-empty thread analyze_thread_patterns sets
\* urgency_escalation exactly when some message at index >= 1 has an urgency
\* keyword in its body or subject; the first message's own urgency words do
\* not count.
C4_UrgencyEscalation ==
    (op = "analyze_thread_patterns" /\ loc.thread_emails # <<>>)
        => (ret.urgency_escalation <=> Escalates(loc.thread_emails))

\* only the first message of a thread of two has urgency words: no escalation
C4_Witness ==
    /\ op = "analyze_thread_patterns"
    /\ Len(loc.thread_emails) = 2
    /\ HasUrgencyWord(loc.thread_emails[1])
    /\ ~HasUrgencyWord(loc.thread_emails[2])
    /\ ret.urgency_escalation = FALSE

\* C5: the confidence should_draft_reply returns lies in [0, 1] (0..10
\* tenths), and is exactly 1.0 when both the reply cue rule and the urgency
\* rule fire.
C5_ConfidenceClamp ==
    op = "should_draft_reply" =>
        /\ ret.confidence \in 0..10
        /\ (HasReplyCue(email) /\ Escalates(thread_context \o <<email>>))
               => ret.confidence = 10

\* a candidate with a reply cue in a thread that escalates
C5_Witness ==
    /\ op = "should_draft_reply"
    /\ HasReplyCue(email)
    /\ Escalates(thread_context \o <<email>>)
    /\ ret.confidence = 10
    /\ ret.should_reply
    /\ ret.reply_urgency = "high"

\* C6: the reply type is the first match of: more than 5 messages with the
\* candidate -> summary; a scheduling word in the candidate's body ->
\* scheduling; more than 2 question marks in the whole thread ->
\* detailed_response; otherwise standard.
C6_ReplyTypePrecedence ==
    op = "should_draft_reply" =>
        ret.reply_type =
            IF Len(thread_context) + 1 > 5 THEN "summary"
            ELSE IF HasSchedulingWord(email) THEN "scheduling"
            ELSE IF QuestionMarks(thread_context \o <<email>>) > 2 THEN "detailed_response"
            ELSE "standard"

\* a thread of length 6 whose candidate has a scheduling word gets summary
C6_Witness ==
    /\ op = "should_draft_reply"
    /\ Len(thread_context) + 1 = 6
    /\ HasSchedulingWord(email)
    /\ ret.reply_type = "summary"

\* C7: should_reply is decided by the candidate's body alone: it is true
\* exactly when the body has a reply cue, whatever the prior thread; when
\* neither rule fires the result is should_reply false, confidence 0.5,
\* urgency normal.
C7_ShouldReplyFromBody ==
    op = "should_draft_reply" =>
        /\ ret.should_reply <=> HasReplyCue(email)
        /\ (~HasReplyCue(email) /\ ~Escalates(thread_context \o <<email>>))
               => /\ ret.should_reply = FALSE
                  /\ ret.confidence = 5
                  /\ ret.reply_urgency = "normal"

\* a candidate without a reply cue in a long thread that escalates: no reply
\* recommended although the urgency is high
C7_Witness ==
    /\ op = "should_draft_reply"
    /\ ~HasReplyCue(email)
    /\ Len(thread_context) = 5
    /\ ret.reply_urgency = "high"
    /\ ret.should_reply = FALSE

----------------------------------------------------------------------------
(* Properties of the orchestrator *)

\* the classifier's reply holds a JSON value the way analyze_email looks for
\* one: null or false alone, or one "{", pairs and one "}" with text around
\* them
ParsesAsJson(text) ==
    LET toks == SelectSeq(text, LAMBDA x : x.t # " ")
        braces == {i \in 1..Len(toks) : toks[i].t \in {"{", "}"}}
    IN  \/ Len(toks) = 1 /\ toks[1].t \in {"null", "false"}
        \/ \E i, j \in 1..Len(toks) :
              /\ i < j
              /\ braces = {i, j}
              /\ toks[i].t = "{"
              /\ toks[j].t = "}"
              /\ \A n \in (i + 1)..(j - 1) : toks[n].t = "pair"

\* the reply holds a JSON value that Python takes as false: null, false
\* or {}
ParsesAsEmpty(text) ==
    ParsesAsJson(text) /\ \A i \in 1..Len(text) : text[i].t # "pair"

\* the classifier call of the last analyze_email_with_context failed: no
\* client, an exception from the API, or an unparseable reply
ClassifierFailed ==
    \/ ~client
    \/ loc.outcome.kind = "raises"
    \/ loc.outcome.kind = "returns" /\ ~ParsesAsJson(loc.outcome.text)

\* the record documented as the fallback
FallbackRecord ==
    [summary |-> "AI analysis unavailable", category |-> "Unknown", priority |-> "Medium",
     suggested_action |-> "NoAction", urgency_indicators |-> <<>>,
     requires_response |-> FALSE, estimated_response_time |-> [py |-> "None"],
     task_description |-> [py |-> "None"], thread_position |-> "Unknown"]

\* C8 as stated: whenever the classifier call fails the fallback record is
\* returned verbatim, also for a message with thread context.
C8_AsStated ==
    (op = "analyze_email_with_context" /\ ClassifierFailed) => ret = FallbackRecord

\* C8 (amended): whenever the classifier call fails the call does not return
\* None; it returns the fallback record verbatim when the message has no
\* thread context, and otherwise the fallback record with a thread_context
\* field added and its priority set to High when the recommendation's
\* urgency is high (all other fields as documented).
C8_FallbackOnFailure ==
    (op = "analyze_email_with_context" /\ ClassifierFailed) =>
        /\ ret # None
        /\ loc.thread_context = <<>> => ret = FallbackRecord
        /\ loc.thread_context # <<>> =>
              /\ DOMAIN ret = DOMAIN FallbackRecord \cup {"thread_context"}
              /\ \A k \in DOMAIN FallbackRecord \ {"priority"} : ret[k] = FallbackRecord[k]
              /\ ret.priority =
                     IF ret.thread_context.reply_urgency = "high" THEN "High" ELSE "Medium"

\* the API raised for a message with thread context whose thread escalates
C8_Witness ==
    /\ op = "analyze_email_with_context"
    /\ client
    /\ loc.outcome.kind = "raises"
    /\ loc.thread_context # <<>>
    /\ ret.category = "Unknown"
    /\ ret.priority = "High"
    /\ ret.thread_context.thread_length = 2

PriorityOf(r) == IF "priority" \in DOMAIN r THEN r.priority ELSE "absent"

Rank(priority) == CASE priority = "Low" -> 1 [] priority = "Medium" -> 2 [] priority = "High" -> 3

\* C10: for a message with thread context the final priority is High if the
\* recommendation's urgency is high, otherwise Medium if the thread
\* escalates and the base priority is Low, otherwise the base priority; so
\* it is never below a base priority of Low, Medium or High, and a base
\* priority of High stays.
C10_PriorityEscalation ==
    (op = "analyze_email_with_context" /\ loc.thread_context # <<>>) =>
        LET base == PriorityOf(loc.basic_analysis)
            final == PriorityOf(ret)
        IN  /\ final =
                  IF ret.thread_context.reply_urgency = "high" THEN "High"
                  ELSE IF loc.thread_analysis.urgency_escalation /\ base = "Low" THEN "Medium"
                  ELSE base
            /\ base \in {"Low", "Medium", "High"} => Rank(final) >= Rank(base)
            /\ base = "High" => final = "High"

\* the classifier said Low, the thread escalates: the record says High
C10_Witness ==
    /\ op = "analyze_email_with_context"
    /\ loc.thread_context # <<>>
    /\ PriorityOf(loc.basic_analysis) = "Low"
    /\ ret.thread_context.reply_urgency = "high"
    /\ ret.priority = "High"
----------------------------------------------------------------------------
(* Properties of the reply scenario *)

\* the body of the reply has one question mark and no scheduling keyword
ScenarioReplyBody ==
    /\ Cardinality({i \in 1..Len(email.body) : email.body[i] = "?"}) = 1
    /\ ~HasSchedulingWord(email)

\* C11 as stated: for a root A and a reply B to it, grouping [A, B] gives
\* exactly one thread, [A, B] in this order; and the recommendation for B
\* after [A], B's body holding one question mark and no scheduling keyword,
\* has should_reply true and reply_type standard.
C11_AsStated ==
    /\ op = "group_emails_by_thread" =>
          /\ Cardinality(DOMAIN ret) = 1
          /\ \A k \in DOMAIN ret : ret[k] = all_emails
    /\ (op = "should_draft_reply" /\ ScenarioReplyBody) =>
          /\ ret.should_reply
          /\ ret.reply_type = "standard"

\* the clock was set back between the two readings of the sort and the
\* reply comes out ahead of the root
C11_Witness ==
    /\ op = "group_emails_by_thread"
    /\ loc.clock[1] > loc.clock[2]
    /\ Cardinality(DOMAIN ret) = 1
    /\ \A k \in DOMAIN ret : ret[k] = <<all_emails[2], all_emails[1]>>
----------------------------------------------------------------------------
(* Properties of the summarizer *)

\* C12: the summary of the empty thread is "No conversation history" and
\* the summary of every thread of one message is "First message in
\* conversation", whatever the message's sender and subject.
C12_SummaryBoundaries ==
    op = "get_conversation_summary" =>
        /\ loc.thread_emails = <<>> =>
              ret = <<"N", "o", " ", "c", "o", "n", "v", "e", "r", "s", "a", "t", "i", "o", "n", " ", "h", "i", "s", "t", "o", "r", "y">>
        /\ Len(loc.thread_emails) = 1 =>
              ret = <<"F", "i", "r", "s", "t", " ", "m", "e", "s", "s", "a", "g", "e", " ", "i", "n", " ", "c", "o", "n", "v", "e", "r", "s", "a", "t", "i", "o", "n">>

\* a single message without sender and subject
C12_Witness ==
    /\ op = "get_conversation_summary"
    /\ Len(loc.thread_emails) = 1
    /\ DOMAIN loc.thread_emails[1] = {"body"}
    /\ ret = FIRST_MESSAGE
----------------------------------------------------------------------------
(* Properties of the pattern analyzer on short threads *)

\* the body of message m has one of the action phrases
HasActionPhrase(m) ==
    \E w \in { <<"p", "l", "e", "a", "s", "e">>, <<"c", "a", "n", " ", "y", "o", "u">>, <<"n", "e", "e", "d", " ", "t", "o">>, <<"s", "h", "o", "u", "l", "d", " ", "w", "e">> } :
        Contains(FieldText(m, "body"), w)

\* C13: analyze_thread_patterns gives the empty record for the empty
\* thread, and for a thread of one message m it gives thread_length 1,
\* the participants {m's sender} (the empty string for a message without
\* sender), no urgency escalation whatever m says, and an action item only
\* if m's body has an action phrase.
C13_EmptyAndSingleton ==
    op = "analyze_thread_patterns" =>
        /\ loc.thread_emails = <<>> => DOMAIN ret = {}
        /\ Len(loc.thread_emails) = 1 =>
              LET m == loc.thread_emails[1]
              IN  /\ ret.thread_length = 1
                  /\ ret.participants = {IF "sender" \in DOMAIN m THEN m.sender ELSE <<>>}
                  /\ ret.urgency_escalation = FALSE
                  /\ ret.action_items # <<>> => HasActionPhrase(m)

\* a single message with an urgency keyword and an action phrase: an action
\* item and no escalation
C13_Witness ==
    /\ op = "analyze_thread_patterns"
    /\ Len(loc.thread_emails) = 1
    /\ HasUrgencyWord(loc.thread_emails[1])
    /\ ret.urgency_escalation = FALSE
    /\ ret.action_items = <<1>>
----------------------------------------------------------------------------
(* Properties of the order inside a thread *)

\* the instant an RFC 5322 date value denotes, in minutes of 15 Jan 2024
\* (-0800); -1 for a value that is not a date
ParsedDate(v) ==
    IF v = <<"M", "o", "n", ",", " ", "1", "5", " ", "J", "a", "n", " ", "2", "0", "2", "4", " ", "1", "0", ":", "3", "0", ":", "0", "0", " ", "-", "0", "8", "0", "0">> THEN 630
    ELSE IF v = <<"M", "o", "n", ",", " ", "1", "5", " ", "J", "a", "n", " ", "2", "0", "2", "4", " ", "1", "2", ":", "1", "5", ":", "0", "0", " ", "-", "0", "8", "0", "0">> THEN 735
    ELSE -1

\* the instant of message e's Date header; -1 without a parseable one
DateOfMessage(e) ==
    IF HeadersNamed(e, <<"d", "a", "t", "e">>) = <<>> THEN -1
    ELSE ParsedDate(HeadersNamed(e, <<"d", "a", "t", "e">>)[1].value)

\* the clock readings of the last call never went back
ClockMonotonic ==
    \A i, j \in DOMAIN loc.clock : i <= j => loc.clock[i] <= loc.clock[j]

\* C14 as stated: in every bucket group_emails_by_thread returns, two
\* messages that both carry a parseable Date header are in ascending Date
\* order, whatever their order in the input.
C14_AsStated ==
    op = "group_emails_by_thread" =>
        \A k \in DOMAIN ret : \A i, j \in 1..Len(ret[k]) :
            (i < j /\ DateOfMessage(ret[k][i]) >= 0 /\ DateOfMessage(ret[k][j]) >= 0)
                => DateOfMessage(ret[k][i]) <= DateOfMessage(ret[k][j])

\* the reply was fetched ahead of the root, the clock never went back, and
\* the bucket keeps the reply ahead of the root
C14_Witness ==
    /\ op = "group_emails_by_thread"
    /\ ClockMonotonic
    /\ all_emails = <<MsgB, MsgA>>
    /\ \E k \in DOMAIN ret : ret[k] = <<MsgB, MsgA>>
\* the messages of list without a parseable Date header
Undated(list) == SelectSeq(list, LAMBDA e : DateOfMessage(e) < 0)

\* the messages of the input that resolve to key k, in fetch order
FetchedFor(k) == SelectSeq(all_emails, LAMBDA e : extract_thread_id(e) = k)

\* C15 as stated: the buckets group_emails_by_thread returns are those of
\* any other run on the same input (here: the run in which every clock
\* reading is 0), and the messages of a bucket without a parseable Date
\* are in fetch order, whatever the clock returns during the sort.
C15_AsStated ==
    op = "group_emails_by_thread" =>
        /\ ret = group_emails_by_thread(all_emails, [i \in 1..Len(all_emails) |-> 0])
        /\ \A k \in DOMAIN ret : Undated(ret[k]) = Undated(FetchedFor(k))

\* two messages without Date were fetched as [MsgD, MsgE]; the clock went
\* back during the sort and the bucket is [MsgE, MsgD]
C15_Witness ==
    /\ op = "group_emails_by_thread"
    /\ all_emails = <<MsgD, MsgE>>
    /\ loc.clock[1] > loc.clock[2]
    /\ \E k \in DOMAIN ret : ret[k] = <<MsgE, MsgD>>
----------------------------------------------------------------------------
(* Properties of the header lookup *)

\* C16: a message and the same message with its header names in another
\* letter case resolve to the same thread key, and _get_email_timestamp
\* gives both the same sort key at the same clock reading.
C16_CaseInsensitiveHeaders ==
    [][ /\ (op = "recased_message" /\ op' = "extract_thread_id") => ret' = ret
        /\ op' = "recased_message" =>
              \A now \in 0..MaxClock :
                  _get_email_timestamp(email', now) = _get_email_timestamp(email, now)
      ]_vars

\* a message with In-Reply-To: its copy with IN-REPLY-TO has been resolved
\* through the in-reply-to rule
C16_Witness ==
    /\ op = "extract_thread_id"
    /\ loc # None
    /\ loc.original.id = email.id
    /\ \E i \in 1..Len(email.headers) :
          /\ loc.original.headers[i].name = <<"I", "n", "-", "R", "e", "p", "l", "y", "-", "T", "o">>
          /\ email.headers[i].name = <<"I", "N", "-", "R", "E", "P", "L", "Y", "-", "T", "O">>
          /\ email.headers[i].value = <<"<", "a", ">">>
    /\ ret = <<"a">>
----------------------------------------------------------------------------
(* Properties of the resolver's References and Message-ID rules *)

IsBlank(c) == c \in {" ", "\t", "\n", "\r", "\f"}

\* v has a whitespace-separated token
HasToken(v) == \E i \in 1..Len(v) : ~IsBlank(v[i])

\* the first whitespace-separated token of v
FirstToken(v) ==
    LET from == CHOOSE i \in 1..Len(v) : ~IsBlank(v[i]) /\ \A j \in 1..(i - 1) : IsBlank(v[j])
        to == CHOOSE i \in from..Len(v) :
                  /\ \A j \in from..i : ~IsBlank(v[j])
                  /\ i = Len(v) \/ IsBlank(v[i + 1])
    IN  SubSeq(v, from, to)

\* C17 as stated: a message without In-Reply-To resolves to the normalized
\* first token of its References header when it has one, and otherwise to
\* its normalized Message-ID when it has one.
C17_AsStated ==
    (op = "extract_thread_id" /\ ~HasHeader(email, InReplyToName)) =>
        /\ (HasHeader(email, ReferencesName) /\ HasToken(LastValue(email, ReferencesName)))
              => ret = WithoutBrackets(FirstToken(LastValue(email, ReferencesName)))
        /\ (~HasHeader(email, ReferencesName) /\ HasHeader(email, MessageIdName))
              => ret = WithoutBrackets(LastValue(email, MessageIdName))

\* C17 (amended): a message without In-Reply-To resolves to the normalized
\* first token of its last References header when that header has a token
\* (even if a Message-ID is present, and even if the normalized token is
\* empty); otherwise to the normalized value of its last Message-ID header
\* when that value is not empty; otherwise to a subject key.  The
\* normalized value has no angle bracket and no whitespace, and normalizing
\* it again changes nothing.
C17_ReferencesThenMessageId ==
    (op = "extract_thread_id" /\ ~HasHeader(email, InReplyToName)) =>
        LET byReferences ==
                HasHeader(email, ReferencesName) /\ HasToken(LastValue(email, ReferencesName))
            byMessageId ==
                /\ ~byReferences
                /\ HasHeader(email, MessageIdName)
                /\ WithoutBrackets(LastValue(email, MessageIdName)) # <<>>
        IN  /\ byReferences => ret = WithoutBrackets(FirstToken(LastValue(email, ReferencesName)))
            /\ byMessageId => ret = WithoutBrackets(LastValue(email, MessageIdName))
            /\ (~byReferences /\ ~byMessageId) => SubSeq(ret, 1, 8) = <<"s", "u", "b", "j", "e", "c", "t", "-">>
            /\ (byReferences \/ byMessageId) =>
                  /\ \A i \in 1..Len(ret) : ret[i] \notin {"<", ">"} /\ ~IsBlank(ret[i])
                  /\ _normalize_message_id(ret) = ret

\* a message whose References holds two ids, with a Message-ID ahead of
\* it, resolved to the first id of References
C17_Witness ==
    /\ op = "extract_thread_id"
    /\ ~HasHeader(email, InReplyToName)
    /\ "headers" \in DOMAIN email
    /\ Len(email.headers) = 2
    /\ email.headers[1].value = <<"<", "d", ">">>
    /\ email.headers[2].value = <<"<", "c", ">", " ", "<", "a", ">">>
    /\ ret = <<"c">>
----------------------------------------------------------------------------
(* Properties of the subject fallback *)

\* s, in lower case, without its leading re:, fwd: and fw: prefixes, however
\* many, and without the whitespace behind each
RECURSIVE WithoutReplyPrefixes(_)
WithoutReplyPrefixes(s) ==
    LET prefixes == { <<"r", "e", ":">>, <<"f", "w", "d", ":">>, <<"f", "w", ":">> }
        found == {p \in prefixes : Len(s) >= Len(p) /\ SubSeq(s, 1, Len(p)) = p}
    IN  IF found = {} THEN s
        ELSE LET p == CHOOSE q \in found : \A r \in found : Len(r) <= Len(q)
                 rest == SubSeq(s, Len(p) + 1, Len(s))
                 blanks == {n \in 0..Len(rest) : \A i \in 1..n : IsBlank(rest[i])}
                 skip == CHOOSE n \in blanks : \A k \in blanks : k <= n
             IN  WithoutReplyPrefixes(SubSeq(rest, skip + 1, Len(rest)))

\* the subject as the fallback compares it: prefixes stripped, runs of
\* whitespace collapsed to one blank, no blank at either end
ComparedSubject(s) ==
    LET stripped == WithoutReplyPrefixes(Lower(s))
        kept == {i \in 1..Len(stripped) :
                    \/ ~IsBlank(stripped[i])
                    \/ /\ i > 1
                       /\ ~IsBlank(stripped[i - 1])
                       /\ \E j \in (i + 1)..Len(stripped) : ~IsBlank(stripped[j])}
        pick[n \in 0..Len(stripped)] ==
            IF n = 0 THEN <<>>
            ELSE IF n \in kept
            THEN Append(pick[n - 1], IF IsBlank(stripped[n]) THEN " " ELSE stripped[n])
            ELSE pick[n - 1]
    IN  pick[Len(stripped)]

\* C18 as stated: a message with a missing or empty headers list resolves
\* to a subject key, also for an empty subject, and two such messages
\* resolve to the same key whenever their subjects are equal after
\* stripping the leading Re:/Fwd:/Fw: prefixes, any number of them, and
\* collapsing whitespace.
C18_AsStated ==
    op = "extract_thread_id" =>
        /\ SubSeq(ret, 1, 8) = <<"s", "u", "b", "j", "e", "c", "t", "-">>
        /\ (loc # None /\ ComparedSubject(loc.original.subject) = ComparedSubject(email.subject))
              => ret = loc.key

\* "Re: Re: Hi" and "Hi" resolved to two keys
C18_Witness ==
    /\ op = "extract_thread_id"
    /\ loc # None
    /\ loc.original.subject = <<"R", "e", ":", " ", "R", "e", ":", " ", "H", "i">>
    /\ email.subject = <<"H", "i">>
    /\ ret # loc.key
----------------------------------------------------------------------------
(* Properties of a reply chain *)

\* the messages of list, as a set
Members(list) == {list[i] : i \in 1..Len(list)}

\* C19 as stated: the root MsgA, its reply MsgB and MsgC, the reply to
\* MsgB, each reply carrying its parent's id in In-Reply-To and the chain
\* from the root in References, are put into one bucket by
\* group_emails_by_thread; the bucket has length 3 when the three were
\* fetched once each.
C19_AsStated ==
    (op = "group_emails_by_thread" /\ {MsgA, MsgB, MsgC} \subseteq Members(all_emails)) =>
        \E k \in DOMAIN ret :
            /\ {MsgA, MsgB, MsgC} \subseteq Members(ret[k])
            /\ Len(all_emails) = 3 => Len(ret[k]) = 3

\* the chain fetched in order: the root and its reply under the root's id,
\* the reply to the reply alone under its parent's id
C19_Witness ==
    /\ op = "group_emails_by_thread"
    /\ all_emails = <<MsgA, MsgB, MsgC>>
    /\ DOMAIN ret = { <<"a">>, <<"b">> }
    /\ Members(ret[<<"a">>]) = {MsgA, MsgB}
    /\ ret[<<"b">>] = <<MsgC>>
----------------------------------------------------------------------------
(* Properties of the response pattern *)

\* the sender of message m, the empty string without one
SenderOf(m) == IF "sender" \in DOMAIN m THEN m.sender ELSE <<>>

\* C20 as stated: for a non-empty thread, response_pattern has
\* thread_length entries, the first is "continuation", and every later
\* entry is "response" exactly when the sender of its message differs from
\* the sender of the message before it, for every sender, empty and missing
\* ones included.
C20_AsStated ==
    (op = "analyze_thread_patterns" /\ loc.thread_emails # <<>>) =>
        LET thread == loc.thread_emails
        IN  /\ ret.thread_length = Len(thread)
            /\ Len(ret.response_pattern) = Len(thread)
            /\ ret.response_pattern[1] = "continuation"
            /\ \A i \in 2..Len(thread) :
                  ret.response_pattern[i] =
                      IF SenderOf(thread[i]) # SenderOf(thread[i - 1])
                      THEN "response" ELSE "continuation"

\* a message from alice follows a message with an empty sender and is
\* marked as a continuation
C20_Witness ==
    /\ op = "analyze_thread_patterns"
    /\ Len(loc.thread_emails) = 2
    /\ SenderOf(loc.thread_emails[1]) = <<>>
    /\ SenderOf(loc.thread_emails[2]) = <<"a", "l", "i", "c", "e">>
    /\ ret.response_pattern = <<"continuation", "continuation">>
----------------------------------------------------------------------------
(* Properties of the pattern analyzer on a growing thread *)

\* C21: when the analysis of a thread T has urgency_escalation, so has the
\* analysis of T followed by any further messages, and the question_count
\* of the longer thread is not below that of T (an empty T has no flag and
\* no count).
C21_EscalationMonotone ==
    op = "analyze_grown_thread" =>
        /\ ("urgency_escalation" \in DOMAIN loc.before /\ loc.before.urgency_escalation)
              => ret.urgency_escalation
        /\ "question_count" \in DOMAIN loc.before
              => ret.question_count >= loc.before.question_count

\* an escalated thread followed by a message without urgency words and
\* without question mark: the flag and the count stay
C21_Witness ==
    /\ op = "analyze_grown_thread"
    /\ loc.thread_emails # <<>>
    /\ loc.before.urgency_escalation
    /\ loc.before.question_count = 1
    /\ ~HasUrgencyWord(loc.further[Len(loc.further)])
    /\ ret.urgency_escalation
    /\ ret.question_count = 1
----------------------------------------------------------------------------
(* Properties of the recommender's urgency rule *)

\* C22: reply_urgency is high exactly when the prior thread followed by the
\* candidate escalates, with or without a reply cue in the candidate; the
\* confidence is 0.5 with no rule, 0.8 with the reply cue only, 0.7 with
\* the escalation only and 1.0 with both (in tenths); with an empty prior
\* thread the urgency is normal whatever the candidate says.
C22_UrgencyRule ==
    op = "should_draft_reply" =>
        LET escalates == Escalates(thread_context \o <<email>>)
            cue == HasReplyCue(email)
        IN  /\ ret.reply_urgency = (IF escalates THEN "high" ELSE "normal")
            /\ ret.confidence =
                  (CASE ~cue /\ ~escalates -> 5
                     [] cue /\ ~escalates -> 8
                     [] ~cue /\ escalates -> 7
                     [] cue /\ escalates -> 10)
            /\ thread_context = <<>> => ret.reply_urgency = "normal"

\* the escalation alone: a candidate with an urgency word and no reply cue
\* behind one prior message
C22_Witness ==
    /\ op = "should_draft_reply"
    /\ Len(thread_context) = 1
    /\ HasUrgencyWord(email)
    /\ ~HasReplyCue(email)
    /\ ret.reply_urgency = "high"
    /\ ret.confidence = 7
----------------------------------------------------------------------------
(* Properties of the summary of a thread of several messages *)

\* the senders of the thread as the summary names them
NamedSenders(thread) ==
    {IF "sender" \in DOMAIN thread[i] THEN thread[i].sender ELSE <<"U", "n", "k", "n", "o", "w", "n">> :
        i \in 1..Len(thread)}

\* a number below ten, written out
Numeral(n) == <<<<"0", "1", "2", "3", "4", "5", "6", "7", "8", "9">>[n + 1]>>

\* the names of list separated by ", "
RECURSIVE CommaList(_)
CommaList(list) ==
    IF list = <<>> THEN <<>>
    ELSE IF Len(list) = 1 THEN list[1]
    ELSE list[1] \o <<",", " ">> \o CommaList(Tail(list))

\* the summary of a thread of M >= 2 messages whose distinct senders are
\* listed in the order names; the topic part is there only if the last
\* message has a non-empty subject
StatedSummary(thread, names) ==
    LET N == Len(names)
        last == thread[Len(thread)]
        subject == IF "subject" \in DOMAIN last THEN last.subject ELSE <<>>
        topic == _normalize_subject(subject)
    IN  <<"C", "o", "n", "v", "e", "r", "s", "a", "t", "i", "o", "n", " ", "w", "i", "t", "h", " ">> \o Numeral(N) \o <<" ", "p", "a", "r", "t", "i", "c", "i", "p", "a", "n", "t", "s", " ", "(">>
        \o CommaList(SubSeq(names, 1, IF N < 3 THEN N ELSE 3))
        \o (IF N > 3 THEN <<" ", "+">> \o Numeral(N - 3) \o <<" ", "o", "t", "h", "e", "r", "s">> ELSE <<>>)
        \o <<")", ",", " ">> \o Numeral(Len(thread)) \o <<" ", "m", "e", "s", "s", "a", "g", "e", "s">>
        \o (IF subject # <<>>
            THEN <<".", " ", "T", "o", "p", "i", "c", ":", " ">> \o SubSeq(topic, 1, IF Len(topic) < 50 THEN Len(topic) ELSE 50)
            ELSE <<>>)

\* C23 as stated: the summary of a thread of M >= 2 messages with N
\* distinct senders reports N participants and M messages, lists min(N, 3)
\* of the senders, adds "+K others" with K = N - 3 exactly when N > 3, and
\* appends the topic only if the last message has a non-empty subject.
C23_AsStated ==
    (op = "get_conversation_summary" /\ Len(loc.thread_emails) >= 2) =>
        \E names \in Orderings(NamedSenders(loc.thread_emails)) :
            ret = StatedSummary(loc.thread_emails, names)

\* the last of two messages has an empty subject and the summary ends with
\* an empty topic
C23_Witness ==
    /\ op = "get_conversation_summary"
    /\ Len(loc.thread_emails) = 2
    /\ "subject" \in DOMAIN loc.thread_emails[2]
    /\ loc.thread_emails[2].subject = <<>>
    /\ SubSeq(ret, Len(ret) - 8, Len(ret)) = <<".", " ", "T", "o", "p", "i", "c", ":", " ">>
----------------------------------------------------------------------------
(* Properties of the thread context *)

\* list without its first element equal to x
RECURSIVE WithoutOne(_, _)
WithoutOne(list, x) ==
    IF list = <<>> THEN <<>>
    ELSE IF Head(list) = x THEN Tail(list)
    ELSE <<Head(list)>> \o WithoutOne(Tail(list), x)

\* C24 as stated: for a message m of the fetched messages, the context
\* get_thread_context returns is the bucket the grouper returned for m's
\* key with m itself taken out, in the same order.
C24_AsStated ==
    op = "get_thread_context" =>
        ret = WithoutOne(loc.threads[extract_thread_id(email)], email)

\* MsgD and MsgE, two messages of one thread that carry the same id: the
\* grouper's bucket holds both, the context of MsgD is empty
C24_Witness ==
    /\ op = "get_thread_context"
    /\ all_emails = <<MsgD, MsgE>>
    /\ email = MsgD
    /\ Members(loc.threads[extract_thread_id(email)]) = {MsgD, MsgE}
    /\ ret = <<>>
----------------------------------------------------------------------------
(* Properties of the record the orchestrator returns *)

\* the message has context among the fetched messages (the clock readings
\* order the context, they do not change its members)
HasContext ==
    get_thread_context(email, all_emails,
        [i \in 1..Len(ThreadOf(email, all_emails)) |-> 0]) # <<>>

\* the returned record carries a thread_context field
Attached == ret # None /\ "thread_context" \in DOMAIN ret

\* the thread_context field is built from the context and the recommender's
\* answer for (message, context)
AttachedAsRecommended ==
    LET reply == should_draft_reply(email, loc.thread_context)
    IN  /\ ret.thread_context.thread_length = Len(loc.thread_context) + 1
        /\ ret.thread_context.thread_length >= 2
        /\ ret.thread_context.reply_recommended = reply.should_reply
        /\ ret.thread_context.reply_urgency = reply.reply_urgency
        /\ ret.thread_context.suggested_reply_type = reply.reply_type

Enhanced == op = "analyze_email_with_context" /\ loc.thread_context # <<>>

\* C26: for a message with non-empty context the recommender's
\* reply_urgency is high exactly when the pattern analysis reports an
\* urgency escalation, an escalation makes the final priority High, and no
\* call returns Medium for a base priority of Low.
C26_UrgencyAgrees ==
    /\ Enhanced =>
          /\ loc.reply_recommendations.reply_urgency = "high"
                <=> loc.thread_analysis.urgency_escalation
          /\ loc.thread_analysis.urgency_escalation => ret.priority = "High"
    /\ op = "analyze_email_with_context" =>
          ~ /\ PriorityOf(loc.basic_analysis) = "Low"
            /\ PriorityOf(ret) = "Medium"

\* MsgA, whose body holds "Urgent", analyzed behind MsgB with a base
\* priority of Low: the thread escalates and the final priority is High
C26_Witness ==
    /\ Enhanced
    /\ email = MsgA
    /\ loc.thread_context = <<MsgB>>
    /\ loc.thread_analysis.urgency_escalation
    /\ loc.reply_recommendations.reply_urgency = "high"
    /\ PriorityOf(loc.basic_analysis) = "Low"
    /\ ret.priority = "High"
----------------------------------------------------------------------------
(* Properties of the resolver on threading headers without an id *)

ThreadingNames == {InReplyToName, ReferencesName, MessageIdName}

\* e without the threading headers whose value normalizes to the empty
\* string (the value that counts for a name is the last one)
WithoutEmptyIds(e) ==
    IF "headers" \notin DOMAIN e THEN e
    ELSE LET empty == {n \in ThreadingNames :
                          HasHeader(e, n) /\ WithoutBrackets(LastValue(e, n)) = <<>>}
         IN  [e EXCEPT !.headers =
                 SelectSeq(@, LAMBDA h : Lower(Get(h, "name", <<>>)) \notin empty)]

\* C27 as stated: the thread key is never empty, and a threading header
\* whose value normalizes to the empty string counts as absent.
C27_AsStated ==
    op = "extract_thread_id" =>
        /\ ret # <<>>
        /\ ret = extract_thread_id(WithoutEmptyIds(email))

\* a message whose only threading header is References with the value
\* "<>" resolved to the empty key
C27_Witness ==
    /\ op = "extract_thread_id"
    /\ ~HasHeader(email, InReplyToName)
    /\ HasHeader(email, ReferencesName)
    /\ LastValue(email, ReferencesName) = <<"<", ">">>
    /\ ret = <<>>

\* C28 as stated: the context of m is m's thread among the fetched
\* messages with exactly one element, m, taken out: one message shorter,
\* and every other message as often as it was fetched.
C28_AsStated ==
    op = "get_thread_context" =>
        LET thread == ThreadOf(email, all_emails)
        IN  /\ Len(ret) = Len(thread) - 1
            /\ \A other \in Members(thread) :
                  Occurrences(other, ret) =
                      Occurrences(other, thread) - (IF other = email THEN 1 ELSE 0)

\* the context of MsgE with MsgD, which carries the same id, fetched behind
\* it as well as MsgE a second time: the thread has three messages, the
\* context none
C28_Witness ==
    /\ op = "get_thread_context"
    /\ email = MsgE
    /\ all_emails = <<MsgE, MsgD, MsgE>>
    /\ Len(ThreadOf(email, all_emails)) = 3
    /\ ret = <<>>
----------------------------------------------------------------------------
(* Properties of the terminal interface *)

\* C29 as stated: whenever the email list is non-empty, current_email_index
\* is the index of one of its elements.
C29_AsStated ==
    self_emails # <<>> =>
        0 <= current_email_index /\ current_email_index < Len(self_emails)

\* after a refresh that fetched fewer emails, the first without an
\* analysis, current_email_index is behind the end of the list
C29_Witness ==
    /\ op = "authenticate_and_load"
    /\ Len(self_emails) = 1
    /\ self_emails[1].analysis = None
    /\ current_email_index = 2

\* the step is a call of action_delete in which the provider was asked
ProviderAnswered == op' = "action_delete" /\ "delete_email" \in DOMAIN ret'

\* C30: a delete for which the provider answers false leaves the email list
\* and current_email_index as they were; a delete for which it answers
\* true removes the email at current_email_index and leaves the others in
\* their order; and no call of action_delete shortens the list without the
\* provider having answered true.
C30_DeleteAllOrNothing ==
    [][ /\ (ProviderAnswered /\ ~ret'.delete_email) =>
              /\ self_emails' = self_emails
              /\ current_email_index' = current_email_index
        /\ (ProviderAnswered /\ ret'.delete_email) =>
              /\ Len(self_emails') = Len(self_emails) - 1
              /\ \A i \in 1..Len(self_emails') :
                    self_emails'[i] =
                        self_emails[IF i <= current_email_index THEN i ELSE i + 1]
        /\ (op' = "action_delete" /\ self_emails' # self_emails) =>
              ProviderAnswered /\ ret'.delete_email
      ]_vars

\* the second of three emails has been deleted: the first and the third
\* remain, and the third is selected
C30_Witness ==
    /\ op = "action_delete"
    /\ "delete_email" \in DOMAIN ret
    /\ ret.delete_email
    /\ Len(self_emails) = 2
    /\ self_emails[1].id = 1
    /\ self_emails[2].id = 3
    /\ current_email_index = 1

====
